---- MODULE Spec2Model ----
(***************************************************************************)
(* A model of the Zustand stores of the JobSpy v2 frontend:                *)
(*   - Search Store  (searchStore.ts, in src/unnamed/part_000)             *)
(*   - Job Store     (jobStore.ts, the third file in stores/authStore.ts)  *)
(*   - User Store    (stores/userStore.ts)                                 *)
(* Every store action that awaits the backend is split at its await: one   *)
(* action for the synchronous part up to the request, one action per way   *)
(* the request can settle.  JavaScript runs each callback to completion,   *)
(* so each part is one atomic step; requests in flight settle in any       *)
(* order.  The variables ev, scen and lastOk are history variables: they   *)
(* record what happened and are never read by the store actions.          *)
(***************************************************************************)
EXTENDS Integers, Sequences, FiniteSets, TLC

VARIABLES
    \* ---- Search Store state (part_000:165-190)
    query, filters, isSearching, error,
    results, totalResults, currentPage, pageSize, sortBy,
    searchHistory, viewMode,
    searchPending,      \* search requests in flight, in issue order
    \* ---- Job Store state (authStore.ts:1079-1094)
    currentJob, isLoadingJob, jobError,
    favoriteJobs, isFavoriteLoading,
    applications, isApplicationLoading,
    viewHistory,
    recommendedJobs, isRecommendationLoading,
    similarJobs,
    jobPending,         \* Job Store requests in flight, in issue order
    \* ---- User Store state (userStore.ts:386-397)
    profile, isProfileLoading, profileError,
    resumes, currentResume, isResumeLoading, resumeError,
    preferences, isPreferencesLoading,
    stats,
    userCalls,          \* User Store calls that have not settled, in call order
    srvResumes,         \* the resumes as the backend holds them
    \* ---- Auth Store state (authStore.ts:127-130)
    user, isAuthenticated, isLoading, authError,
    authPending,        \* Auth Store requests in flight, in issue order
    localStorage,       \* the entries of localStorage the stores read and write themselves
    \* ---- UI Store state (authStore.ts:497-523)
    theme, sidebarCollapsed, sidebarVisible,
    notifications,
    timers,             \* ids of the notifications whose setTimeout has not fired
    \* ---- history variables
    ev,                 \* the last store step: what ran and how the call settled
    scen,               \* progress along the run  setQuery({keyword}) ; search() ; success
    lastOk              \* query of the last successful search, and whether clearHistory ran since

searchVars == <<query, filters, isSearching, error, results, totalResults,
                currentPage, pageSize, sortBy, searchHistory, viewMode, searchPending>>
jobVars == <<currentJob, isLoadingJob, jobError, favoriteJobs, isFavoriteLoading,
             applications, isApplicationLoading, viewHistory, recommendedJobs,
             isRecommendationLoading, similarJobs, jobPending>>
userVars == <<profile, isProfileLoading, profileError, resumes, currentResume,
              isResumeLoading, resumeError, preferences, isPreferencesLoading, stats,
              userCalls, srvResumes>>
authVars == <<user, isAuthenticated, isLoading, authError, authPending, localStorage>>
uiVars == <<theme, sidebarCollapsed, sidebarVisible, notifications, timers>>
shellVars == <<authVars, uiVars>>
ghostVars == <<ev, scen, lastOk>>
vars == <<searchVars, jobVars, userVars, shellVars, ghostVars>>

(***************************************************************************)
(* Values                                                                  *)
(***************************************************************************)
Null == "<null>"
Undefined == "<undefined>"
NoArg == <<"<no argument>">>

\* An object is the sequence of its <<key, value>> pairs in insertion order,
\* which is the order JSON.stringify and the spread operator follow.
Keys(o) == {o[i][1] : i \in 1..Len(o)}
Pairs(o) == {o[i] : i \in 1..Len(o)}
HasKey(o, k) == \E i \in 1..Len(o) : o[i][1] = k
Get(o, k) == IF HasKey(o, k) THEN (CHOOSE p \in Pairs(o) : p[1] = k)[2] ELSE Undefined

\* Faulty variant: the new object replaces the old one instead of being merged into it.
SpreadReplacing(base, part) == part

\* { ...base, ...part }: keys of base keep their place and take part's value,
\* keys new in part follow in part's order.
Spread(base, part) ==
    LET over == [i \in 1..Len(base) |->
                    IF HasKey(part, base[i][1])
                    THEN <<base[i][1], Get(part, base[i][1])>> ELSE base[i]]
        fresh == SelectSeq(part, LAMBDA p : ~HasKey(base, p[1]))
    IN  over \o fresh

\* JSON.stringify(o): the pairs in insertion order, a key whose value is
\* undefined left out.  Two objects have the same text iff these are equal.
Stringify(o) == SelectSeq(o, LAMBDA p : p[2] # Undefined)

\* Deep equality of two flat objects: the same keys with the same values,
\* whatever the order they were inserted in.
DeepEqual(a, b) == Pairs(a) = Pairs(b)

\* Array.prototype.slice(0, n)
Slice0(s, n) == SubSeq(s, 1, IF Len(s) < n THEN Len(s) ELSE n)

RemoveAt(s, i) == SubSeq(s, 1, i - 1) \o SubSeq(s, i + 1, Len(s))

\* localStorage as the stores use it directly: key/value pairs.
GetItem(key) == IF HasKey(localStorage, key) THEN Get(localStorage, key) ELSE Null
SetItem(key, value) == Spread(localStorage, << <<key, value>> >>)
RemoveItem(key) == SelectSeq(localStorage, LAMBDA p : p[1] # key)

\* The key the Auth Store keeps the token under, and the key the services of
\* the Job Store and the User Store read their bearer token from.
AuthTokenKey == "auth-token"
ServiceTokenKey == "token"

\* The Authorization header of a request of JobService or UserService:
\* `Bearer ${localStorage.getItem('token')}`; getJob and getSimilarJobs send none.
Bearer == GetItem(ServiceTokenKey)
NoAuthorization == "<no header>"


(***************************************************************************)
(* Bounds and program constants                                            *)
(***************************************************************************)
MaxInFlight == 2            \* requests of one store in flight at once
MaxUserCalls == 2           \* User Store calls running at once
MaxFavorites == 3           \* entries of favoriteJobs, counting the additions in flight
MaxApplications == 2        \* entries of applications, counting the applications in flight
MaxNotificationIds == 6     \* notifications and timers alive at once
MaxTimers == 2              \* timers running at once
MaxResumes == 5             \* resumes of the backend, counting the creations in flight
SearchHistoryCap == 10
ViewHistoryCap == 50
InitialPageSize == 20

DefaultSearchError == "search failed (generic)"   \* the literal at part_000:110,238
FailureMessages == {"", "backend down"}           \* message of an error response; "" is none

InitialQuery == << <<"keyword", "">>, <<"location", "">>, <<"platforms", "104,linkedin,indeed">> >>
InitialFilters == << <<"jobTypes", "">>, <<"publishedDate", "all">> >>

\* Inputs the actions draw from.
SetQueryArgs == { << <<"keyword", "engineer">> >>,
                  << <<"experience", "senior">>, <<"keyword", "engineer">> >> }
SetFiltersArgs == { << <<"publishedDate", "week">> >> }
OverrideQuery == << <<"keyword", "engineer">>, <<"location", "">>,
                   <<"platforms", "104,linkedin,indeed">> >>
SearchArgs == {NoArg, OverrideQuery}
\* The same query built with its keys in another order, and with a field set to undefined.
OverrideReordered == << <<"location", "">>, <<"keyword", "engineer">>,
                       <<"platforms", "104,linkedin,indeed">> >>
OverrideWithUndefined == OverrideQuery \o << <<"salaryMin", Undefined>> >>
HistoryArgs == {NoArg, OverrideQuery, OverrideReordered, OverrideWithUndefined}
OneResponse == [jobs |-> <<1>>, total |-> 1]
SearchResponses == { OneResponse, [jobs |-> <<2, 3>>, total |-> 40] }
\* A search history as left in local storage by earlier sessions: 10 different queries.
OldKeywords == <<"k01", "k02", "k03", "k04", "k05", "k06", "k07", "k08", "k09", "k10",
                 "k11", "k12">>
FullHistory == [i \in 1..SearchHistoryCap |-> << <<"keyword", OldKeywords[i]>>, <<"location", "">> >>]
PageArgs == {1, 2}
PageSizeArgs == {20, 50}
SortByArgs == {"relevance", "date"}

(***************************************************************************)
(* Zustand's set and the history variables                                 *)
(***************************************************************************)
\* set(partial) writes the fields partial names and leaves the others: the
\* value of field k after set(patch), old being its value before.
Field(patch, k, old) == IF k \in DOMAIN patch THEN patch[k] ELSE old

\* Two set calls in a row, the second computed from the state the first left.
Then(p1, p2) ==
    [k \in DOMAIN p1 \cup DOMAIN p2 |-> IF k \in DOMAIN p2 THEN p2[k] ELSE p1[k]]

\* op: the step; arg: its input; outcome: how the call settled with this step
\* ("resolved", "rejected", or "none" while it has not); err: what it rejected with.
Event(op, arg, outcome, err) == [op |-> op, arg |-> arg, outcome |-> outcome, err |-> err]
NoQuery == <<>>
NoResponse == [jobs |-> <<>>, total |-> 0]

\* ---- Auth Store and UI Store: the initial state
NullUser == [id |-> 0, name |-> Null]
NoToken == Null
InitAuthStore ==
    /\ user = NullUser
    /\ isAuthenticated = FALSE
    /\ isLoading = FALSE
    /\ authError = Null
    /\ authPending = <<>>
    /\ localStorage = <<>>

InitUIStore ==
    /\ theme = "auto"
    /\ sidebarCollapsed = FALSE
    /\ sidebarVisible = TRUE
    /\ notifications = <<>>
    /\ timers = {}

InitShell == InitAuthStore /\ InitUIStore

InitGhost ==
    /\ ev = Event("init", Null, "none", Null)
    /\ scen = 0
    /\ lastOk = [q |-> NoQuery, cleared |-> FALSE, response |-> NoResponse]

(***************************************************************************)
(* Search Store                                                            *)
(***************************************************************************)
InitSearchStore(history) ==
    /\ query = InitialQuery
    /\ filters = InitialFilters
    /\ isSearching = FALSE
    /\ error = Null
    /\ results = <<>>
    /\ totalResults = 0
    /\ currentPage = 1
    /\ pageSize = InitialPageSize
    /\ sortBy = "relevance"
    /\ searchHistory = history
    /\ viewMode = "grid"
    /\ searchPending = <<>>

\* set(patch) of the Search Store.
SearchSet(patch) ==
    /\ query' = Field(patch, "query", query)
    /\ filters' = Field(patch, "filters", filters)
    /\ isSearching' = Field(patch, "isSearching", isSearching)
    /\ error' = Field(patch, "error", error)
    /\ results' = Field(patch, "results", results)
    /\ totalResults' = Field(patch, "totalResults", totalResults)
    /\ currentPage' = Field(patch, "currentPage", currentPage)
    /\ pageSize' = Field(patch, "pageSize", pageSize)
    /\ sortBy' = Field(patch, "sortBy", sortBy)
    /\ searchHistory' = Field(patch, "searchHistory", searchHistory)
    /\ viewMode' = Field(patch, "viewMode", viewMode)

\* The test of addToHistory's filter: keep the items whose JSON text differs.
OtherText(item, q) == Stringify(item) # Stringify(q)

\* Faulty variant: the query is put last.
SearchAddToHistoryAtEnd(history, q) ==
    [searchHistory |-> Slice0(SelectSeq(history, LAMBDA item : OtherText(item, q)) \o <<q>>,
                              SearchHistoryCap)]

\* addToHistory(q) on the list history: drop the entries with q's JSON text,
\* put q first, keep the first 10.
SearchAddToHistory(history, q) ==
    [searchHistory |-> Slice0(<<q>> \o SelectSeq(history, LAMBDA item : OtherText(item, q)), SearchHistoryCap)]

\* The message of the Error searchJobs throws for an error response.
SearchErrorMessage(m) == IF m = "" THEN DefaultSearchError ELSE m

\* search(): the query it searches for.
FinalQuery(arg) == IF arg = NoArg THEN query ELSE arg

\* search(): the set before the request.
SearchStartPatch == [isSearching |-> TRUE, error |-> Null]

\* Faulty variant: the response of a request that a later one has overtaken is dropped.
SearchSuccessLatestIssuedWins(req, response) ==
    IF req.overtaken THEN [isSearching |-> FALSE]
    ELSE [results |-> response.jobs, totalResults |-> response.total, isSearching |-> FALSE]

\* Faulty variant: the new page is appended to the results shown.
SearchSuccessAppending(req, response) ==
    [results |-> results \o response.jobs, totalResults |-> response.total,
     isSearching |-> FALSE]

\* search(): the set after a successful response to request req.
SearchSuccessPatch(req, response) ==
    [results |-> response.jobs, totalResults |-> response.total, isSearching |-> FALSE]

\* Faulty variant: a failed search empties the result list.
SearchFailureClearing(m) ==
    [isSearching |-> FALSE, error |-> SearchErrorMessage(m), results |-> <<>>,
     totalResults |-> 0]

\* search(): the set in the catch block.
SearchFailurePatch(m) == [isSearching |-> FALSE, error |-> SearchErrorMessage(m)]

\* search() up to its await, run after the caller's set(before): read the
\* parameters from the state, raise the flag, issue the request.
\* Faulty variant: the parameters are read before the patch is set.
SearchRequestBeforeSet(before, arg) ==
    [q |-> FinalQuery(arg), page |-> currentPage, pageSize |-> pageSize, sortBy |-> sortBy,
     overtaken |-> FALSE]

\* The request search(arg) hands to searchJobs once the patch before is set:
\* finalQuery, currentPage, pageSize and sortBy of the state, nothing else.
SearchRequest(before, arg) ==
    [q |-> FinalQuery(arg),
     page |-> Field(before, "currentPage", currentPage),
     pageSize |-> Field(before, "pageSize", pageSize),
     sortBy |-> Field(before, "sortBy", sortBy),
     overtaken |-> FALSE]

IssueSearch(before, arg) ==
    /\ Len(searchPending) < MaxInFlight
    /\ SearchSet(Then(before, SearchStartPatch))
    /\ searchPending' = Append(searchPending, SearchRequest(before, arg))

setQuery(newQuery) ==
    /\ SearchSet([query |-> Spread(query, newQuery)])
    /\ ev' = Event("setQuery", newQuery, "none", Null)
    /\ scen' = IF scen = 0 /\ Keys(newQuery) = {"keyword"} THEN 1 ELSE 4
    /\ UNCHANGED <<shellVars, searchPending, lastOk, jobVars, userVars>>

setFilters(newFilters) ==
    /\ SearchSet([filters |-> Spread(filters, newFilters)])
    /\ ev' = Event("setFilters", newFilters, "none", Null)
    /\ scen' = 4
    /\ UNCHANGED <<shellVars, searchPending, lastOk, jobVars, userVars>>

search(arg) ==
    /\ IssueSearch(<<>>, arg)
    /\ ev' = Event("search", arg, "none", Null)
    /\ scen' = IF scen = 1 /\ arg = NoArg THEN 2 ELSE 4
    /\ UNCHANGED <<shellVars, lastOk, jobVars, userVars>>

\* The request at place i of searchPending succeeds with response: the
\* results are set, then addToHistory runs on the state that leaves.
searchOk(i, response) ==
    LET req == searchPending[i]
        rest == [j \in 1..Len(searchPending) |->
                    IF j < i THEN [searchPending[j] EXCEPT !.overtaken = TRUE]
                    ELSE searchPending[j]]
    IN  /\ SearchSet(Then(SearchSuccessPatch(req, response),
                          SearchAddToHistory(searchHistory, req.q)))
        /\ searchPending' = RemoveAt(rest, i)
        /\ ev' = Event("searchOk", [req |-> req, response |-> response, prev |-> results],
                       "resolved", Null)
        /\ scen' = IF scen = 2 THEN 3 ELSE 4
        /\ lastOk' = [q |-> req.q, cleared |-> FALSE, response |-> response]
        /\ UNCHANGED <<shellVars, jobVars, userVars>>

\* The request at place i of searchPending fails with an error response of
\* message m: the catch block swallows the error.
searchFail(i, m) ==
    /\ SearchSet(SearchFailurePatch(m))
    /\ searchPending' = RemoveAt(searchPending, i)
    /\ ev' = Event("searchFail", [req |-> searchPending[i], message |-> m], "resolved", Null)
    /\ scen' = 4
    /\ UNCHANGED <<shellVars, lastOk, jobVars, userVars>>

clearSearch ==
    /\ SearchSet([results |-> <<>>, totalResults |-> 0, currentPage |-> 1, error |-> Null])
    /\ ev' = Event("clearSearch", Null, "none", Null)
    /\ scen' = 4
    /\ UNCHANGED <<shellVars, searchPending, lastOk, jobVars, userVars>>

clearError ==
    /\ SearchSet([error |-> Null])
    /\ ev' = Event("clearError", Null, "none", Null)
    /\ scen' = 4
    /\ UNCHANGED <<shellVars, searchPending, lastOk, jobVars, userVars>>

setPage(page) ==
    /\ IssueSearch([currentPage |-> page], NoArg)
    /\ ev' = Event("setPage", page, "none", Null)
    /\ scen' = 4
    /\ UNCHANGED <<shellVars, lastOk, jobVars, userVars>>

setPageSize(size) ==
    /\ IssueSearch([pageSize |-> size, currentPage |-> 1], NoArg)
    /\ ev' = Event("setPageSize", size, "none", Null)
    /\ scen' = 4
    /\ UNCHANGED <<shellVars, lastOk, jobVars, userVars>>

setSortBy(sort) ==
    /\ IssueSearch([sortBy |-> sort, currentPage |-> 1], NoArg)
    /\ ev' = Event("setSortBy", sort, "none", Null)
    /\ scen' = 4
    /\ UNCHANGED <<shellVars, lastOk, jobVars, userVars>>

searchClearHistory ==
    /\ SearchSet([searchHistory |-> <<>>])
    /\ ev' = Event("clearHistory", Null, "none", Null)
    /\ scen' = 4
    /\ lastOk' = [lastOk EXCEPT !.cleared = TRUE]
    /\ UNCHANGED <<shellVars, searchPending, jobVars, userVars>>

(***************************************************************************)
(* Job Store                                                               *)
(***************************************************************************)
\* A job is its id and the rest of its content (rev): the backend may return
\* the same job with other content.
Job(id, rev) == [id |-> id, rev |-> rev]
\* null in a field that holds a job: a record, so that it compares with jobs;
\* no job has its id.
NullJob == [id |-> 0, rev |-> 0]
FavoriteArgs == {Job(1, 1), Job(2, 1)}
ViewArgs == {Job(1, 1), Job(50, 1), Job(50, 2), Job(51, 1), Job(52, 1)}
\* A view history as left in local storage by earlier sessions: 50 different jobs.
FullViewHistory == [i \in 1..ViewHistoryCap |-> Job(i, 1)]

DefaultAddFavoriteError == "add favorite failed (generic)"       \* authStore.ts:938
DefaultRemoveFavoriteError == "remove favorite failed (generic)" \* authStore.ts:955

InitJobStore(history) ==
    /\ currentJob = NullJob
    /\ isLoadingJob = FALSE
    /\ jobError = Null
    /\ favoriteJobs = <<>>
    /\ isFavoriteLoading = FALSE
    /\ applications = <<>>
    /\ isApplicationLoading = FALSE
    /\ viewHistory = history
    /\ recommendedJobs = <<>>
    /\ isRecommendationLoading = FALSE
    /\ similarJobs = <<>>
    /\ jobPending = <<>>

\* set(patch) of the Job Store.
JobSet(patch) ==
    /\ currentJob' = Field(patch, "currentJob", currentJob)
    /\ isLoadingJob' = Field(patch, "isLoadingJob", isLoadingJob)
    /\ jobError' = Field(patch, "jobError", jobError)
    /\ favoriteJobs' = Field(patch, "favoriteJobs", favoriteJobs)
    /\ isFavoriteLoading' = Field(patch, "isFavoriteLoading", isFavoriteLoading)
    /\ applications' = Field(patch, "applications", applications)
    /\ isApplicationLoading' = Field(patch, "isApplicationLoading", isApplicationLoading)
    /\ viewHistory' = Field(patch, "viewHistory", viewHistory)
    /\ recommendedJobs' = Field(patch, "recommendedJobs", recommendedJobs)
    /\ isRecommendationLoading' = Field(patch, "isRecommendationLoading", isRecommendationLoading)
    /\ similarJobs' = Field(patch, "similarJobs", similarJobs)

\* The message of the Error a JobService method throws for an error response.
JobErrorMessage(m, generic) == IF m = "" THEN generic ELSE m

OtherId(item, id) == item.id # id
SameId(item, id) == item.id = id
IdsOf(list) == {list[i].id : i \in 1..Len(list)}

\* addToFavorites: the set after the backend confirmed.
AddFavoriteSuccessPatch(job) ==
    [favoriteJobs |-> Append(favoriteJobs, job), isFavoriteLoading |-> FALSE]

\* Faulty variant: the failure is also recorded in jobError.
AddFavoriteFailureStoringError(m) ==
    [isFavoriteLoading |-> FALSE, jobError |-> JobErrorMessage(m, DefaultAddFavoriteError)]

\* addToFavorites: the set in the catch block, before the rethrow.
AddFavoriteFailurePatch(m) == [isFavoriteLoading |-> FALSE]

\* Faulty variant: removal by position: indexOf gives -1 for an absent id, and
\* splice(-1, 1) then removes the last entry.
RemoveFavoriteSplicing(id) ==
    [favoriteJobs |->
        IF id \in IdsOf(favoriteJobs)
        THEN SelectSeq(favoriteJobs, LAMBDA item : OtherId(item, id))
        ELSE SubSeq(favoriteJobs, 1, Len(favoriteJobs) - 1),
     isFavoriteLoading |-> FALSE]

\* removeFromFavorites: the set after the backend confirmed.
RemoveFavoriteSuccessPatch(id) ==
    [favoriteJobs |-> SelectSeq(favoriteJobs, LAMBDA item : OtherId(item, id)), isFavoriteLoading |-> FALSE]

\* Faulty variant: only an entry equal to the job in every field is removed.
JobAddToHistoryByValue(history, job) ==
    [viewHistory |-> Slice0(<<job>> \o SelectSeq(history, LAMBDA item : item # job),
                            ViewHistoryCap)]

\* addToHistory(job) on the list history: drop the entries with job's id,
\* put job first, keep the first 50.
JobAddToHistory(history, job) ==
    [viewHistory |-> Slice0(<<job>> \o SelectSeq(history, LAMBDA item : OtherId(item, job.id)), ViewHistoryCap)]

PendingAdds == Len(SelectSeq(jobPending, LAMBDA r : r.op = "addToFavorites"))

addToFavorites(job) ==
    /\ Len(jobPending) < MaxInFlight
    /\ Len(favoriteJobs) + PendingAdds < MaxFavorites
    /\ JobSet([isFavoriteLoading |-> TRUE])
    /\ jobPending' = Append(jobPending, [op |-> "addToFavorites", arg |-> job, bearer |-> Bearer])
    /\ ev' = Event("addToFavorites", job, "none", Null)
    /\ UNCHANGED <<shellVars, scen, lastOk, searchVars, userVars>>

addToFavoritesOk(i) ==
    /\ jobPending[i].op = "addToFavorites"
    /\ JobSet(AddFavoriteSuccessPatch(jobPending[i].arg))
    /\ jobPending' = RemoveAt(jobPending, i)
    /\ ev' = Event("addToFavoritesOk", [job |-> jobPending[i].arg, prev |-> favoriteJobs],
                   "resolved", Null)
    /\ UNCHANGED <<shellVars, scen, lastOk, searchVars, userVars>>

\* The catch block clears the flag and rethrows what the service threw.
addToFavoritesFail(i, m) ==
    /\ jobPending[i].op = "addToFavorites"
    /\ JobSet(AddFavoriteFailurePatch(m))
    /\ jobPending' = RemoveAt(jobPending, i)
    /\ ev' = Event("addToFavoritesFail", [job |-> jobPending[i].arg, message |-> m],
                   "rejected", JobErrorMessage(m, DefaultAddFavoriteError))
    /\ UNCHANGED <<shellVars, scen, lastOk, searchVars, userVars>>

removeFromFavorites(id) ==
    /\ Len(jobPending) < MaxInFlight
    /\ JobSet([isFavoriteLoading |-> TRUE])
    /\ jobPending' = Append(jobPending, [op |-> "removeFromFavorites", arg |-> id, bearer |-> Bearer])
    /\ ev' = Event("removeFromFavorites", id, "none", Null)
    /\ UNCHANGED <<shellVars, scen, lastOk, searchVars, userVars>>

removeFromFavoritesOk(i) ==
    /\ jobPending[i].op = "removeFromFavorites"
    /\ JobSet(RemoveFavoriteSuccessPatch(jobPending[i].arg))
    /\ jobPending' = RemoveAt(jobPending, i)
    /\ ev' = Event("removeFromFavoritesOk", [id |-> jobPending[i].arg, prev |-> favoriteJobs],
                   "resolved", Null)
    /\ UNCHANGED <<shellVars, scen, lastOk, searchVars, userVars>>

removeFromFavoritesFail(i, m) ==
    /\ jobPending[i].op = "removeFromFavorites"
    /\ JobSet([isFavoriteLoading |-> FALSE])
    /\ jobPending' = RemoveAt(jobPending, i)
    /\ ev' = Event("removeFromFavoritesFail", [id |-> jobPending[i].arg, message |-> m],
                   "rejected", JobErrorMessage(m, DefaultRemoveFavoriteError))
    /\ UNCHANGED <<shellVars, scen, lastOk, searchVars, userVars>>

jobAddToHistory(job) ==
    /\ JobSet(JobAddToHistory(viewHistory, job))
    /\ ev' = Event("jobAddToHistory", job, "none", Null)
    /\ UNCHANGED <<shellVars, jobPending, scen, lastOk, searchVars, userVars>>

jobClearHistory ==
    /\ JobSet([viewHistory |-> <<>>])
    /\ ev' = Event("jobClearHistory", Null, "none", Null)
    /\ UNCHANGED <<shellVars, jobPending, scen, lastOk, searchVars, userVars>>

\* ---- Job Store: the read operations
FetchJobArgs == {1, 2}
\* What the backend answers to the read requests.
JobResponse(jobId) == Job(jobId, 1)
ServerFavorites == <<Job(1, 1)>>
Application(id, jobId, status) == [id |-> id, jobId |-> jobId, status |-> status]
ServerApplications == <<Application(1, 1, "pending")>>
ServerRecommendations == <<Job(2, 1)>>
SimilarJobsOf(jobId) == <<Job(jobId + 10, 1)>>

DefaultFetchJobError == "fetch job failed (generic)"                      \* authStore.ts:918,1114
DefaultFetchFavoritesError == "fetch favorites failed (generic)"          \* authStore.ts:971
DefaultFetchApplicationsError == "fetch applications failed (generic)"    \* authStore.ts:1031
DefaultFetchRecommendationsError == "fetch recommendations failed (generic)" \* authStore.ts:1049
DefaultFetchSimilarJobsError == "fetch similar jobs failed (generic)"     \* authStore.ts:1063

\* A failed read: the message of the Error the service threw.
Failure(message) == [error |-> message]

\* fetchJob: the set before the request.
FetchJobStartPatch == [isLoadingJob |-> TRUE, jobError |-> Null]
\* fetchJob: the set after the backend answered with job.
FetchJobSuccessPatch(job) == [currentJob |-> job, isLoadingJob |-> FALSE]
\* Faulty variant: a failed fetchJob only clears its loading flag.
FetchJobFailureSilent(m) == [isLoadingJob |-> FALSE]
\* Faulty variant: a failed fetch forgets the job on display.
FetchJobFailureClearingJob(m) ==
    [isLoadingJob |-> FALSE, jobError |-> JobErrorMessage(m, DefaultFetchJobError),
     currentJob |-> NullJob]
\* fetchJob: the set in the catch block.
FetchJobFailurePatch(m) ==
    [isLoadingJob |-> FALSE, jobError |-> JobErrorMessage(m, DefaultFetchJobError)]

fetchJob(jobId) ==
    /\ Len(jobPending) < MaxInFlight
    /\ JobSet(FetchJobStartPatch)
    /\ jobPending' = Append(jobPending, [op |-> "fetchJob", arg |-> jobId, bearer |-> NoAuthorization])
    /\ ev' = Event("fetchJob", jobId, "none", Null)
    /\ UNCHANGED <<shellVars, scen, lastOk, searchVars, userVars>>

\* getJob answered: currentJob is set, then addToHistory(job) runs on the
\* state that leaves, then fetchSimilarJobs(jobId) runs up to its await and
\* fetchJob returns without waiting for it.
fetchJobOk(i) ==
    LET jobId == jobPending[i].arg
        job == JobResponse(jobId)
    IN  /\ jobPending[i].op = "fetchJob"
        /\ JobSet(Then(FetchJobSuccessPatch(job), JobAddToHistory(viewHistory, job)))
        /\ jobPending' = Append(RemoveAt(jobPending, i),
                                [op |-> "fetchSimilarJobs", arg |-> jobId, bearer |-> NoAuthorization])
        /\ ev' = Event("fetchJobOk", job, "resolved", Null)
        /\ UNCHANGED <<shellVars, scen, lastOk, searchVars, userVars>>

fetchJobFail(i, m) ==
    /\ jobPending[i].op = "fetchJob"
    /\ JobSet(FetchJobFailurePatch(m))
    /\ jobPending' = RemoveAt(jobPending, i)
    /\ ev' = Event("fetchJobFail", Failure(JobErrorMessage(m, DefaultFetchJobError)),
                   "resolved", Null)
    /\ UNCHANGED <<shellVars, scen, lastOk, searchVars, userVars>>

\* fetchSimilarJobs called on its own (fetchJob calls it within fetchJobOk).
fetchSimilarJobs(jobId) ==
    /\ Len(jobPending) < MaxInFlight
    /\ JobSet(<<>>)
    /\ jobPending' = Append(jobPending, [op |-> "fetchSimilarJobs", arg |-> jobId, bearer |-> NoAuthorization])
    /\ ev' = Event("fetchSimilarJobs", jobId, "none", Null)
    /\ UNCHANGED <<shellVars, scen, lastOk, searchVars, userVars>>

fetchSimilarJobsOk(i) ==
    /\ jobPending[i].op = "fetchSimilarJobs"
    /\ JobSet([similarJobs |-> SimilarJobsOf(jobPending[i].arg)])
    /\ jobPending' = RemoveAt(jobPending, i)
    /\ ev' = Event("fetchSimilarJobsOk", jobPending[i].arg, "resolved", Null)
    /\ UNCHANGED <<shellVars, scen, lastOk, searchVars, userVars>>

\* The catch block only logs.
fetchSimilarJobsFail(i, m) ==
    /\ jobPending[i].op = "fetchSimilarJobs"
    /\ JobSet(<<>>)
    /\ jobPending' = RemoveAt(jobPending, i)
    /\ ev' = Event("fetchSimilarJobsFail",
                   Failure(JobErrorMessage(m, DefaultFetchSimilarJobsError)), "resolved", Null)
    /\ UNCHANGED <<shellVars, scen, lastOk, searchVars, userVars>>

fetchFavorites ==
    /\ Len(jobPending) < MaxInFlight
    /\ JobSet([isFavoriteLoading |-> TRUE])
    /\ jobPending' = Append(jobPending, [op |-> "fetchFavorites", arg |-> Null, bearer |-> Bearer])
    /\ ev' = Event("fetchFavorites", Null, "none", Null)
    /\ UNCHANGED <<shellVars, scen, lastOk, searchVars, userVars>>

fetchFavoritesOk(i) ==
    /\ jobPending[i].op = "fetchFavorites"
    /\ JobSet([favoriteJobs |-> ServerFavorites, isFavoriteLoading |-> FALSE])
    /\ jobPending' = RemoveAt(jobPending, i)
    /\ ev' = Event("fetchFavoritesOk", Null, "resolved", Null)
    /\ UNCHANGED <<shellVars, scen, lastOk, searchVars, userVars>>

\* The catch block clears the flag and logs.
fetchFavoritesFail(i, m) ==
    /\ jobPending[i].op = "fetchFavorites"
    /\ JobSet([isFavoriteLoading |-> FALSE])
    /\ jobPending' = RemoveAt(jobPending, i)
    /\ ev' = Event("fetchFavoritesFail",
                   Failure(JobErrorMessage(m, DefaultFetchFavoritesError)), "resolved", Null)
    /\ UNCHANGED <<shellVars, scen, lastOk, searchVars, userVars>>

fetchApplications ==
    /\ Len(jobPending) < MaxInFlight
    /\ JobSet([isApplicationLoading |-> TRUE])
    /\ jobPending' = Append(jobPending, [op |-> "fetchApplications", arg |-> Null, bearer |-> Bearer])
    /\ ev' = Event("fetchApplications", Null, "none", Null)
    /\ UNCHANGED <<shellVars, scen, lastOk, searchVars, userVars>>

fetchApplicationsOk(i) ==
    /\ jobPending[i].op = "fetchApplications"
    /\ JobSet([applications |-> ServerApplications, isApplicationLoading |-> FALSE])
    /\ jobPending' = RemoveAt(jobPending, i)
    /\ ev' = Event("fetchApplicationsOk", Null, "resolved", Null)
    /\ UNCHANGED <<shellVars, scen, lastOk, searchVars, userVars>>

fetchApplicationsFail(i, m) ==
    /\ jobPending[i].op = "fetchApplications"
    /\ JobSet([isApplicationLoading |-> FALSE])
    /\ jobPending' = RemoveAt(jobPending, i)
    /\ ev' = Event("fetchApplicationsFail",
                   Failure(JobErrorMessage(m, DefaultFetchApplicationsError)), "resolved", Null)
    /\ UNCHANGED <<shellVars, scen, lastOk, searchVars, userVars>>

fetchRecommendations ==
    /\ Len(jobPending) < MaxInFlight
    /\ JobSet([isRecommendationLoading |-> TRUE])
    /\ jobPending' = Append(jobPending, [op |-> "fetchRecommendations", arg |-> Null, bearer |-> Bearer])
    /\ ev' = Event("fetchRecommendations", Null, "none", Null)
    /\ UNCHANGED <<shellVars, scen, lastOk, searchVars, userVars>>

fetchRecommendationsOk(i) ==
    /\ jobPending[i].op = "fetchRecommendations"
    /\ JobSet([recommendedJobs |-> ServerRecommendations, isRecommendationLoading |-> FALSE])
    /\ jobPending' = RemoveAt(jobPending, i)
    /\ ev' = Event("fetchRecommendationsOk", Null, "resolved", Null)
    /\ UNCHANGED <<shellVars, scen, lastOk, searchVars, userVars>>

fetchRecommendationsFail(i, m) ==
    /\ jobPending[i].op = "fetchRecommendations"
    /\ JobSet([isRecommendationLoading |-> FALSE])
    /\ jobPending' = RemoveAt(jobPending, i)
    /\ ev' = Event("fetchRecommendationsFail",
                   Failure(JobErrorMessage(m, DefaultFetchRecommendationsError)),
                   "resolved", Null)
    /\ UNCHANGED <<shellVars, scen, lastOk, searchVars, userVars>>

\* clearCurrentJob()
clearCurrentJob ==
    /\ JobSet([currentJob |-> NullJob, jobError |-> Null, similarJobs |-> <<>>])
    /\ ev' = Event("clearCurrentJob", Null, "none", Null)
    /\ UNCHANGED <<shellVars, jobPending, scen, lastOk, searchVars, userVars>>

\* ---- Job Store: applications
ApplyArgs == {1, 2}
\* The application the backend creates for job jobId, and the one it returns
\* for an update of application id to the interview stage.
NewApplication(jobId) == Application(jobId + 10, jobId, "pending")
UpdatedApplication(id) == Application(id, id - 10, "interview")
UpdateApplicationArgs == {11, 12}

DefaultApplyError == "apply failed (generic)"                           \* authStore.ts:992
DefaultUpdateApplicationError == "update application failed (generic)"  \* authStore.ts:1013

\* applyToJob: the set after the backend answered with application.
ApplySuccessPatch(application) ==
    [applications |-> Append(applications, application), isApplicationLoading |-> FALSE]
\* updateApplication: the set after the backend answered with updated.
UpdateApplicationSuccessPatch(id, updated) ==
    [applications |-> [k \in 1..Len(applications) |->
                          IF applications[k].id = id THEN updated ELSE applications[k]],
     isApplicationLoading |-> FALSE]
\* Faulty variant: a failed write forgets the applications.
ApplicationFailureClearing(m) == [applications |-> <<>>, isApplicationLoading |-> FALSE]
\* applyToJob and updateApplication: the set in the catch block, before the rethrow.
ApplicationFailurePatch(m) == [isApplicationLoading |-> FALSE]

PendingApplies == Len(SelectSeq(jobPending, LAMBDA r : r.op = "applyToJob"))

applyToJob(jobId) ==
    /\ Len(jobPending) < MaxInFlight
    /\ Len(applications) + PendingApplies < MaxApplications
    /\ JobSet([isApplicationLoading |-> TRUE])
    /\ jobPending' = Append(jobPending, [op |-> "applyToJob", arg |-> jobId, bearer |-> Bearer])
    /\ ev' = Event("applyToJob", jobId, "none", Null)
    /\ UNCHANGED <<shellVars, scen, lastOk, searchVars, userVars>>

applyToJobOk(i) ==
    /\ jobPending[i].op = "applyToJob"
    /\ JobSet(ApplySuccessPatch(NewApplication(jobPending[i].arg)))
    /\ jobPending' = RemoveAt(jobPending, i)
    /\ ev' = Event("applyToJobOk", jobPending[i].arg, "resolved", Null)
    /\ UNCHANGED <<shellVars, scen, lastOk, searchVars, userVars>>

applyToJobFail(i, m) ==
    /\ jobPending[i].op = "applyToJob"
    /\ JobSet(ApplicationFailurePatch(m))
    /\ jobPending' = RemoveAt(jobPending, i)
    /\ ev' = Event("applyToJobFail", [message |-> m],
                   "rejected", JobErrorMessage(m, DefaultApplyError))
    /\ UNCHANGED <<shellVars, scen, lastOk, searchVars, userVars>>

updateApplication(applicationId) ==
    /\ Len(jobPending) < MaxInFlight
    /\ JobSet([isApplicationLoading |-> TRUE])
    /\ jobPending' = Append(jobPending, [op |-> "updateApplication", arg |-> applicationId, bearer |-> Bearer])
    /\ ev' = Event("updateApplication", applicationId, "none", Null)
    /\ UNCHANGED <<shellVars, scen, lastOk, searchVars, userVars>>

updateApplicationOk(i) ==
    /\ jobPending[i].op = "updateApplication"
    /\ JobSet(UpdateApplicationSuccessPatch(jobPending[i].arg,
                                            UpdatedApplication(jobPending[i].arg)))
    /\ jobPending' = RemoveAt(jobPending, i)
    /\ ev' = Event("updateApplicationOk", jobPending[i].arg, "resolved", Null)
    /\ UNCHANGED <<shellVars, scen, lastOk, searchVars, userVars>>

updateApplicationFail(i, m) ==
    /\ jobPending[i].op = "updateApplication"
    /\ JobSet(ApplicationFailurePatch(m))
    /\ jobPending' = RemoveAt(jobPending, i)
    /\ ev' = Event("updateApplicationFail", [message |-> m],
                   "rejected", JobErrorMessage(m, DefaultUpdateApplicationError))
    /\ UNCHANGED <<shellVars, scen, lastOk, searchVars, userVars>>

(***************************************************************************)
(* User Store                                                              *)
(***************************************************************************)
Resume(id, name, isDefault) == [id |-> id, name |-> name, isDefault |-> isDefault]
\* null in a field that holds a resume: a record, so that it compares with
\* resumes; no resume has its id.
NullResume == [id |-> 0, name |-> Null, isDefault |-> FALSE]
\* What the backend holds when the page loads.
ServerResumes == << Resume(1, "cv-a", TRUE), Resume(2, "cv-b", FALSE), Resume(3, "cv-c", FALSE) >>
ResumeArgs == {1, 2, 3}

DefaultUpdateResumeError == "update resume failed (generic)"    \* userStore.ts:304,513
DefaultFetchResumesError == "fetch resumes failed (generic)"    \* userStore.ts:268,468

InitUserStore ==
    /\ profile = Null
    /\ isProfileLoading = FALSE
    /\ profileError = Null
    /\ resumes = <<>>
    /\ currentResume = NullResume
    /\ isResumeLoading = FALSE
    /\ resumeError = Null
    /\ preferences = Null
    /\ isPreferencesLoading = FALSE
    /\ stats = Null
    /\ userCalls = <<>>
    /\ srvResumes = ServerResumes

\* set(patch) of the User Store.
UserSet(patch) ==
    /\ profile' = Field(patch, "profile", profile)
    /\ isProfileLoading' = Field(patch, "isProfileLoading", isProfileLoading)
    /\ profileError' = Field(patch, "profileError", profileError)
    /\ resumes' = Field(patch, "resumes", resumes)
    /\ currentResume' = Field(patch, "currentResume", currentResume)
    /\ isResumeLoading' = Field(patch, "isResumeLoading", isResumeLoading)
    /\ resumeError' = Field(patch, "resumeError", resumeError)
    /\ preferences' = Field(patch, "preferences", preferences)
    /\ isPreferencesLoading' = Field(patch, "isPreferencesLoading", isPreferencesLoading)
    /\ stats' = Field(patch, "stats", stats)

UserErrorMessage(m, generic) == IF m = "" THEN generic ELSE m

\* resumes.find((resume) => resume.isDefault) || null
FindDefault(list) ==
    IF \E i \in 1..Len(list) : list[i].isDefault
    THEN list[CHOOSE i \in 1..Len(list) :
                 list[i].isDefault /\ \A j \in 1..(i - 1) : ~list[j].isDefault]
    ELSE NullResume

Defaults(list) == {i \in 1..Len(list) : list[i].isDefault}
DefaultIds(list) == {list[i].id : i \in Defaults(list)}

\* The backend applies a PATCH of isDefault to resume id and answers with the
\* resume as it then holds it.
ServerApply(list, id, isDefault) ==
    [i \in 1..Len(list) |->
        IF list[i].id = id THEN [list[i] EXCEPT !.isDefault = isDefault] ELSE list[i]]
ServerResume(list, id) == list[CHOOSE i \in 1..Len(list) : list[i].id = id]

\* updateResume and fetchResumes: the set before the request.
ResumeStartPatch == [isResumeLoading |-> TRUE, resumeError |-> Null]

\* updateResume: the set after the backend answered with updatedResume.
UpdateResumeSuccessPatch(list, current, resumeId, updatedResume) ==
    [resumes |-> [i \in 1..Len(list) |->
                    IF list[i].id = resumeId THEN updatedResume ELSE list[i]],
     currentResume |-> IF current # NullResume /\ current.id = resumeId
                       THEN updatedResume ELSE current,
     isResumeLoading |-> FALSE]

\* Faulty variant: the failure also takes back every default mark.
UpdateResumeFailureRollingBack(m) ==
    [isResumeLoading |-> FALSE, resumeError |-> UserErrorMessage(m, DefaultUpdateResumeError),
     resumes |-> [i \in 1..Len(resumes) |-> [resumes[i] EXCEPT !.isDefault = FALSE]]]

\* updateResume: the set in the catch block, before the rethrow.
UpdateResumeFailurePatch(m) ==
    [isResumeLoading |-> FALSE, resumeError |-> UserErrorMessage(m, DefaultUpdateResumeError)]

\* fetchResumes: the set after the backend answered with list.
FetchResumesSuccessPatch(list) ==
    [resumes |-> list, currentResume |-> FindDefault(list), isResumeLoading |-> FALSE]

\* Faulty variant: the loop does not skip the resume it has just promoted.
NextToDemoteAny(snapshot, from, resumeId) ==
    LET hits == {j \in from..Len(snapshot) : snapshot[j].isDefault}
    IN  IF hits = {} THEN 0 ELSE CHOOSE j \in hits : \A k \in hits : j <= k

\* setDefaultResume's loop over the list it read after the promotion: the
\* first place from `from` on whose resume is another one marked default
\* (0 when the loop ends without one).
NextToDemote(snapshot, from, resumeId) ==
    LET hits == {j \in from..Len(snapshot) :
                    snapshot[j].id # resumeId /\ snapshot[j].isDefault}
    IN  IF hits = {} THEN 0 ELSE CHOOSE j \in hits : \A k \in hits : j <= k

\* A call starts: the calls already running are no longer alone.
Overlapped(calls) == [j \in 1..Len(calls) |-> [calls[j] EXCEPT !.clean = FALSE]]

\* The body of a request that creates a resume: a resume without id and
\* timestamps.  NoPayload: the request in flight has no such body.
Payload(name, isDefault) == [name |-> name, isDefault |-> isDefault]
NoPayload == Payload(Null, FALSE)

\* A call that has not settled.  id: its argument; pc: what it awaits; target:
\* the resume of the PATCH in flight; payload: the body of the POST in flight;
\* snapshot, idx: the list setDefaultResume loops over and its place in it.
\* clean and oneDefault are history: whether the call ran alone so far, and
\* whether it started from a list with exactly one resume marked default.
Call(op, id, pc) ==
    [op |-> op, id |-> id, pc |-> pc, target |-> id, payload |-> NoPayload,
     bearer |-> Bearer, snapshot |-> <<>>, idx |-> 0,
     clean |-> userCalls = <<>>, oneDefault |-> Cardinality(Defaults(resumes)) = 1]

\* What an event keeps of the call it is about.
CallInfo(c) == [id |-> c.id, pc |-> c.pc, target |-> c.target,
                clean |-> c.clean, oneDefault |-> c.oneDefault]

fetchResumes ==
    /\ Len(userCalls) < MaxUserCalls
    /\ UserSet(ResumeStartPatch)
    /\ userCalls' = Append(Overlapped(userCalls), Call("fetchResumes", Null, "fetch"))
    /\ ev' = Event("fetchResumes", Null, "none", Null)
    /\ UNCHANGED <<shellVars, srvResumes, scen, lastOk, searchVars, jobVars>>

fetchResumesOk(i) ==
    /\ userCalls[i].op = "fetchResumes"
    /\ UserSet(FetchResumesSuccessPatch(srvResumes))
    /\ userCalls' = RemoveAt(userCalls, i)
    /\ ev' = Event("fetchResumesOk", Null, "resolved", Null)
    /\ UNCHANGED <<shellVars, srvResumes, scen, lastOk, searchVars, jobVars>>

fetchResumesFail(i, m) ==
    /\ userCalls[i].op = "fetchResumes"
    /\ UserSet([isResumeLoading |-> FALSE,
                resumeError |-> UserErrorMessage(m, DefaultFetchResumesError)])
    /\ userCalls' = RemoveAt(userCalls, i)
    /\ ev' = Event("fetchResumesFail", Failure(UserErrorMessage(m, DefaultFetchResumesError)),
                   "resolved", Null)
    /\ UNCHANGED <<shellVars, srvResumes, scen, lastOk, searchVars, jobVars>>

\* setDefaultResume(resumeId) up to its first await: updateResume(resumeId,
\* {isDefault: true}) raises the flag and issues the PATCH.
setDefaultResume(resumeId) ==
    /\ Len(userCalls) < MaxUserCalls
    /\ UserSet(ResumeStartPatch)
    /\ userCalls' = Append(Overlapped(userCalls), Call("setDefaultResume", resumeId, "promote"))
    /\ ev' = Event("setDefaultResume", resumeId, "none", Null)
    /\ UNCHANGED <<shellVars, srvResumes, scen, lastOk, searchVars, jobVars>>

\* The PATCH that call i of userCalls awaits succeeds.  updateResume writes the
\* answer into the state; setDefaultResume then goes on: after the promotion
\* it reads the list once and loops over what it read, issuing the next
\* demotion or, at the end of the list, returning.
setDefaultResumeOk(i) ==
    LET c == userCalls[i]
        value == (c.pc = "promote")
        srv == ServerApply(srvResumes, c.target, value)
        patch == UpdateResumeSuccessPatch(resumes, currentResume, c.target,
                                          ServerResume(srv, c.target))
        snapshot == IF c.pc = "promote" THEN patch.resumes ELSE c.snapshot
        next == NextToDemote(snapshot, IF c.pc = "promote" THEN 1 ELSE c.idx + 1, c.id)
        going == [c EXCEPT !.pc = "demote", !.snapshot = snapshot, !.idx = next,
                           !.target = snapshot[next].id, !.bearer = Bearer]
    IN  /\ c.op = "setDefaultResume"
        /\ c.target \in IdsOf(srvResumes)
        /\ srvResumes' = srv
        /\ IF next = 0
           THEN /\ UserSet(patch)
                /\ userCalls' = RemoveAt(userCalls, i)
                /\ ev' = Event("setDefaultResumeDone", CallInfo(c), "resolved", Null)
           ELSE /\ UserSet(Then(patch, ResumeStartPatch))
                /\ userCalls' = [userCalls EXCEPT ![i] = going]
                /\ ev' = Event("setDefaultResumeStep", CallInfo(going), "none", Null)
        /\ UNCHANGED <<shellVars, scen, lastOk, searchVars, jobVars>>

\* The PATCH that call i of userCalls awaits fails with an error response of
\* message m: updateResume records it and rethrows, and so does setDefaultResume.
setDefaultResumeFail(i, m) ==
    LET c == userCalls[i]
    IN  /\ c.op = "setDefaultResume"
        /\ UserSet(UpdateResumeFailurePatch(m))
        /\ userCalls' = RemoveAt(userCalls, i)
        /\ ev' = Event("setDefaultResumeFailed", CallInfo(c),
                       "rejected", UserErrorMessage(m, DefaultUpdateResumeError))
        /\ UNCHANGED <<shellVars, srvResumes, scen, lastOk, searchVars, jobVars>>

\* ---- User Store: the other read operations
\* What the backend answers to the read requests.
ServerProfile == "profile of the backend"
ServerPreferences == "preferences of the backend"
ServerStats == "stats of the backend"

DefaultFetchProfileError == "fetch profile failed (generic)"          \* userStore.ts:211,411
DefaultFetchPreferencesError == "fetch preferences failed (generic)"  \* userStore.ts:335
DefaultFetchStatsError == "fetch stats failed (generic)"              \* userStore.ts:369

\* fetchProfile and updateProfile: the set before the request.
ProfileStartPatch == [isProfileLoading |-> TRUE, profileError |-> Null]
\* fetchProfile: the set in the catch block.
FetchProfileFailurePatch(m) ==
    [isProfileLoading |-> FALSE, profileError |-> UserErrorMessage(m, DefaultFetchProfileError)]

fetchProfile ==
    /\ Len(userCalls) < MaxUserCalls
    /\ UserSet(ProfileStartPatch)
    /\ userCalls' = Append(Overlapped(userCalls), Call("fetchProfile", Null, "fetch"))
    /\ ev' = Event("fetchProfile", Null, "none", Null)
    /\ UNCHANGED <<shellVars, srvResumes, scen, lastOk, searchVars, jobVars>>

fetchProfileOk(i) ==
    /\ userCalls[i].op = "fetchProfile"
    /\ UserSet([profile |-> ServerProfile, isProfileLoading |-> FALSE])
    /\ userCalls' = RemoveAt(userCalls, i)
    /\ ev' = Event("fetchProfileOk", Null, "resolved", Null)
    /\ UNCHANGED <<shellVars, srvResumes, scen, lastOk, searchVars, jobVars>>

fetchProfileFail(i, m) ==
    /\ userCalls[i].op = "fetchProfile"
    /\ UserSet(FetchProfileFailurePatch(m))
    /\ userCalls' = RemoveAt(userCalls, i)
    /\ ev' = Event("fetchProfileFail", Failure(UserErrorMessage(m, DefaultFetchProfileError)),
                   "resolved", Null)
    /\ UNCHANGED <<shellVars, srvResumes, scen, lastOk, searchVars, jobVars>>

fetchPreferences ==
    /\ Len(userCalls) < MaxUserCalls
    /\ UserSet([isPreferencesLoading |-> TRUE])
    /\ userCalls' = Append(Overlapped(userCalls), Call("fetchPreferences", Null, "fetch"))
    /\ ev' = Event("fetchPreferences", Null, "none", Null)
    /\ UNCHANGED <<shellVars, srvResumes, scen, lastOk, searchVars, jobVars>>

fetchPreferencesOk(i) ==
    /\ userCalls[i].op = "fetchPreferences"
    /\ UserSet([preferences |-> ServerPreferences, isPreferencesLoading |-> FALSE])
    /\ userCalls' = RemoveAt(userCalls, i)
    /\ ev' = Event("fetchPreferencesOk", Null, "resolved", Null)
    /\ UNCHANGED <<shellVars, srvResumes, scen, lastOk, searchVars, jobVars>>

\* The catch block clears the flag and logs.
fetchPreferencesFail(i, m) ==
    /\ userCalls[i].op = "fetchPreferences"
    /\ UserSet([isPreferencesLoading |-> FALSE])
    /\ userCalls' = RemoveAt(userCalls, i)
    /\ ev' = Event("fetchPreferencesFail",
                   Failure(UserErrorMessage(m, DefaultFetchPreferencesError)), "resolved", Null)
    /\ UNCHANGED <<shellVars, srvResumes, scen, lastOk, searchVars, jobVars>>

fetchStats ==
    /\ Len(userCalls) < MaxUserCalls
    /\ UserSet(<<>>)
    /\ userCalls' = Append(Overlapped(userCalls), Call("fetchStats", Null, "fetch"))
    /\ ev' = Event("fetchStats", Null, "none", Null)
    /\ UNCHANGED <<shellVars, srvResumes, scen, lastOk, searchVars, jobVars>>

fetchStatsOk(i) ==
    /\ userCalls[i].op = "fetchStats"
    /\ UserSet([stats |-> ServerStats])
    /\ userCalls' = RemoveAt(userCalls, i)
    /\ ev' = Event("fetchStatsOk", Null, "resolved", Null)
    /\ UNCHANGED <<shellVars, srvResumes, scen, lastOk, searchVars, jobVars>>

\* The catch block only logs.
fetchStatsFail(i, m) ==
    /\ userCalls[i].op = "fetchStats"
    /\ UserSet(<<>>)
    /\ userCalls' = RemoveAt(userCalls, i)
    /\ ev' = Event("fetchStatsFail", Failure(UserErrorMessage(m, DefaultFetchStatsError)),
                   "resolved", Null)
    /\ UNCHANGED <<shellVars, srvResumes, scen, lastOk, searchVars, jobVars>>

\* ---- User Store: the write operations
UpdatedProfile == "profile as updated"
UpdatedPreferences == "preferences as updated"
\* updateResume is called with a new name (setDefaultResume calls it with isDefault).
RenamedName == "cv-renamed"
\* createResume is called with the data of a new resume.
CreateArgs == {Payload("cv-new", FALSE)}

DefaultUpdateProfileError == "update profile failed (generic)"          \* userStore.ts:229,428
DefaultCreateResumeError == "create resume failed (generic)"            \* userStore.ts:286,489
DefaultDeleteResumeError == "delete resume failed (generic)"            \* userStore.ts:321,535
DefaultUpdatePreferencesError == "update preferences failed (generic)"  \* userStore.ts:353

\* The backend creates a resume from the body of a POST: it gives it an id.
NewResumeId(list) ==
    IF list = <<>> THEN 1
    ELSE 1 + CHOOSE n \in IdsOf(list) : \A k \in IdsOf(list) : k <= n
ServerCreate(list, payload) ==
    Append(list, Resume(NewResumeId(list), payload.name, payload.isDefault))
ServerRename(list, id, name) ==
    [k \in 1..Len(list) |-> IF list[k].id = id THEN [list[k] EXCEPT !.name = name] ELSE list[k]]

\* updateProfile: the set in the catch block, before the rethrow.
UpdateProfileFailurePatch(m) ==
    [isProfileLoading |-> FALSE, profileError |-> UserErrorMessage(m, DefaultUpdateProfileError)]

updateProfile ==
    /\ Len(userCalls) < MaxUserCalls
    /\ UserSet(ProfileStartPatch)
    /\ userCalls' = Append(Overlapped(userCalls), Call("updateProfile", 0, "update"))
    /\ ev' = Event("updateProfile", Null, "none", Null)
    /\ UNCHANGED <<shellVars, srvResumes, scen, lastOk, searchVars, jobVars>>

updateProfileOk(i) ==
    /\ userCalls[i].op = "updateProfile"
    /\ UserSet([profile |-> UpdatedProfile, isProfileLoading |-> FALSE])
    /\ userCalls' = RemoveAt(userCalls, i)
    /\ ev' = Event("updateProfileOk", Null, "resolved", Null)
    /\ UNCHANGED <<shellVars, srvResumes, scen, lastOk, searchVars, jobVars>>

updateProfileFail(i, m) ==
    /\ userCalls[i].op = "updateProfile"
    /\ UserSet(UpdateProfileFailurePatch(m))
    /\ userCalls' = RemoveAt(userCalls, i)
    /\ ev' = Event("updateProfileFail", [message |-> m],
                   "rejected", UserErrorMessage(m, DefaultUpdateProfileError))
    /\ UNCHANGED <<shellVars, srvResumes, scen, lastOk, searchVars, jobVars>>

updatePreferences ==
    /\ Len(userCalls) < MaxUserCalls
    /\ UserSet([isPreferencesLoading |-> TRUE])
    /\ userCalls' = Append(Overlapped(userCalls), Call("updatePreferences", 0, "update"))
    /\ ev' = Event("updatePreferences", Null, "none", Null)
    /\ UNCHANGED <<shellVars, srvResumes, scen, lastOk, searchVars, jobVars>>

updatePreferencesOk(i) ==
    /\ userCalls[i].op = "updatePreferences"
    /\ UserSet([preferences |-> UpdatedPreferences, isPreferencesLoading |-> FALSE])
    /\ userCalls' = RemoveAt(userCalls, i)
    /\ ev' = Event("updatePreferencesOk", Null, "resolved", Null)
    /\ UNCHANGED <<shellVars, srvResumes, scen, lastOk, searchVars, jobVars>>

updatePreferencesFail(i, m) ==
    /\ userCalls[i].op = "updatePreferences"
    /\ UserSet([isPreferencesLoading |-> FALSE])
    /\ userCalls' = RemoveAt(userCalls, i)
    /\ ev' = Event("updatePreferencesFail", [message |-> m],
                   "rejected", UserErrorMessage(m, DefaultUpdatePreferencesError))
    /\ UNCHANGED <<shellVars, srvResumes, scen, lastOk, searchVars, jobVars>>

\* createResume: the set after the backend answered with newResume.
CreateResumeSuccessPatch(newResume) ==
    [resumes |-> Append(resumes, newResume),
     currentResume |-> IF newResume.isDefault THEN newResume ELSE currentResume,
     isResumeLoading |-> FALSE]
\* createResume: the set in the catch block, before the rethrow.
CreateResumeFailurePatch(m) ==
    [isResumeLoading |-> FALSE, resumeError |-> UserErrorMessage(m, DefaultCreateResumeError)]

PendingCreates == Len(SelectSeq(userCalls, LAMBDA c : c.pc = "create"))

\* createResume(resumeData) up to its await, on behalf of the call op(id).
IssueCreate(op, id, resumeData) ==
    /\ Len(userCalls) < MaxUserCalls
    /\ Len(srvResumes) + PendingCreates < MaxResumes
    /\ UserSet(ResumeStartPatch)
    /\ userCalls' = Append(Overlapped(userCalls),
                           [Call(op, id, "create") EXCEPT !.payload = resumeData])

createResume(resumeData) ==
    /\ IssueCreate("createResume", 0, resumeData)
    /\ ev' = Event("createResume", resumeData, "none", Null)
    /\ UNCHANGED <<shellVars, srvResumes, scen, lastOk, searchVars, jobVars>>

\* The POST that call i awaits succeeds: the backend stores the new resume
\* and answers with it.
createResumeOk(i) ==
    LET c == userCalls[i]
        srv == ServerCreate(srvResumes, c.payload)
    IN  /\ c.pc = "create"
        /\ srvResumes' = srv
        /\ UserSet(CreateResumeSuccessPatch(srv[Len(srv)]))
        /\ userCalls' = RemoveAt(userCalls, i)
        /\ ev' = Event(IF c.op = "createResume" THEN "createResumeOk" ELSE "duplicateResumeOk",
                       [call |-> CallInfo(c), payload |-> c.payload, before |-> resumes],
                       "resolved", Null)
        /\ UNCHANGED <<shellVars, scen, lastOk, searchVars, jobVars>>

createResumeFail(i, m) ==
    LET c == userCalls[i]
    IN  /\ c.pc = "create"
        /\ UserSet(CreateResumeFailurePatch(m))
        /\ userCalls' = RemoveAt(userCalls, i)
        /\ ev' = Event(IF c.op = "createResume" THEN "createResumeFail"
                                                ELSE "duplicateResumeFail",
                       [message |-> m],
                       "rejected", UserErrorMessage(m, DefaultCreateResumeError))
        /\ UNCHANGED <<shellVars, srvResumes, scen, lastOk, searchVars, jobVars>>

\* updateResume(resumeId, {name}) called on its own.
updateResume(resumeId) ==
    /\ Len(userCalls) < MaxUserCalls
    /\ UserSet(ResumeStartPatch)
    /\ userCalls' = Append(Overlapped(userCalls), Call("updateResume", resumeId, "update"))
    /\ ev' = Event("updateResume", resumeId, "none", Null)
    /\ UNCHANGED <<shellVars, srvResumes, scen, lastOk, searchVars, jobVars>>

updateResumeOk(i) ==
    LET c == userCalls[i]
        srv == ServerRename(srvResumes, c.id, RenamedName)
    IN  /\ c.op = "updateResume"
        /\ c.id \in IdsOf(srvResumes)
        /\ srvResumes' = srv
        /\ UserSet(UpdateResumeSuccessPatch(resumes, currentResume, c.id, ServerResume(srv, c.id)))
        /\ userCalls' = RemoveAt(userCalls, i)
        /\ ev' = Event("updateResumeOk", c.id, "resolved", Null)
        /\ UNCHANGED <<shellVars, scen, lastOk, searchVars, jobVars>>

updateResumeFail(i, m) ==
    /\ userCalls[i].op = "updateResume"
    /\ UserSet(UpdateResumeFailurePatch(m))
    /\ userCalls' = RemoveAt(userCalls, i)
    /\ ev' = Event("updateResumeFail", [message |-> m],
                   "rejected", UserErrorMessage(m, DefaultUpdateResumeError))
    /\ UNCHANGED <<shellVars, srvResumes, scen, lastOk, searchVars, jobVars>>

\* deleteResume: the set after the backend confirmed.
DeleteResumeSuccessPatch(resumeId) ==
    [resumes |-> SelectSeq(resumes, LAMBDA item : OtherId(item, resumeId)),
     currentResume |-> IF currentResume # NullResume /\ currentResume.id = resumeId
                       THEN NullResume ELSE currentResume,
     isResumeLoading |-> FALSE]
\* deleteResume: the set in the catch block, before the rethrow.
DeleteResumeFailurePatch(m) ==
    [isResumeLoading |-> FALSE, resumeError |-> UserErrorMessage(m, DefaultDeleteResumeError)]

deleteResume(resumeId) ==
    /\ Len(userCalls) < MaxUserCalls
    /\ UserSet(ResumeStartPatch)
    /\ userCalls' = Append(Overlapped(userCalls), Call("deleteResume", resumeId, "delete"))
    /\ ev' = Event("deleteResume", resumeId, "none", Null)
    /\ UNCHANGED <<shellVars, srvResumes, scen, lastOk, searchVars, jobVars>>

deleteResumeOk(i) ==
    LET c == userCalls[i]
    IN  /\ c.op = "deleteResume"
        /\ srvResumes' = SelectSeq(srvResumes, LAMBDA item : OtherId(item, c.id))
        /\ UserSet(DeleteResumeSuccessPatch(c.id))
        /\ userCalls' = RemoveAt(userCalls, i)
        /\ ev' = Event("deleteResumeOk", c.id, "resolved", Null)
        /\ UNCHANGED <<shellVars, scen, lastOk, searchVars, jobVars>>

deleteResumeFail(i, m) ==
    /\ userCalls[i].op = "deleteResume"
    /\ UserSet(DeleteResumeFailurePatch(m))
    /\ userCalls' = RemoveAt(userCalls, i)
    /\ ev' = Event("deleteResumeFail", [message |-> m],
                   "rejected", UserErrorMessage(m, DefaultDeleteResumeError))
    /\ UNCHANGED <<shellVars, srvResumes, scen, lastOk, searchVars, jobVars>>

\* ---- User Store: duplicateResume
ResumeNotFoundError == "resume to duplicate not found"      \* userStore.ts:567
DuplicateArgs == {1, 2, 9}
\* `${originalResume.name} (副本)`
CopyName(name) == name \o " (copy)"

\* resumes.find((resume) => resume.id === resumeId)
FindById(list, id) == list[CHOOSE i \in 1..Len(list) : list[i].id = id /\ \A j \in 1..(i - 1) : list[j].id # id]

\* Faulty variant: the copy keeps the default mark of the original.
DuplicatedResumeKeepingDefault(original) ==
    LET copy == [original EXCEPT !.name = CopyName(@)]
    IN  [k \in DOMAIN copy \ {"id", "createdAt", "updatedAt"} |-> copy[k]]

\* The object duplicateResume hands to createResume: the original spread,
\* renamed, not default, its id and timestamps deleted.
DuplicatedResume(original) ==
    LET copy == [original EXCEPT !.name = CopyName(@), !.isDefault = FALSE]
    IN  [k \in DOMAIN copy \ {"id", "createdAt", "updatedAt"} |-> copy[k]]

duplicateResume(resumeId) ==
    IF resumeId \notin IdsOf(resumes)
    THEN /\ ev' = Event("duplicateResume", resumeId, "rejected", ResumeNotFoundError)
         /\ UNCHANGED <<shellVars, userVars, scen, lastOk, searchVars, jobVars>>
    ELSE /\ IssueCreate("duplicateResume", resumeId, DuplicatedResume(FindById(resumes, resumeId)))
         /\ ev' = Event("duplicateResume", resumeId, "none", Null)
         /\ UNCHANGED <<shellVars, srvResumes, scen, lastOk, searchVars, jobVars>>

(***************************************************************************)
(* Auth Store                                                              *)
(***************************************************************************)
\* What the backend answers to login, register and refresh.
ServerUser == [id |-> 7, name |-> "user"]
Tokens == {"t1", "t2"}

DefaultLoginError == "login failed (generic)"            \* authStore.ts:63,155
DefaultRegisterError == "register failed (generic)"      \* authStore.ts:83,182

AuthSet(patch) ==
    /\ user' = Field(patch, "user", user)
    /\ isAuthenticated' = Field(patch, "isAuthenticated", isAuthenticated)
    /\ isLoading' = Field(patch, "isLoading", isLoading)
    /\ authError' = Field(patch, "error", authError)

\* login and register: the set after the backend answered.
LoginSuccessPatch(u) ==
    [user |-> u, isAuthenticated |-> TRUE, isLoading |-> FALSE, error |-> Null]
\* Faulty variant: a refreshed session does not set the flag.
RefreshSuccessKeepingFlag(u) == [user |-> u, isLoading |-> FALSE]
\* refreshToken: the set after the backend answered.
RefreshSuccessPatch(u) == [user |-> u, isAuthenticated |-> TRUE, isLoading |-> FALSE]
\* Faulty variant: logout also clears the loading flag.
LogoutClearingLoading ==
    [user |-> NullUser, isAuthenticated |-> FALSE, error |-> Null, isLoading |-> FALSE]
\* logout: the set after the token is removed.
LogoutPatch == [user |-> NullUser, isAuthenticated |-> FALSE, error |-> Null]

\* A request of the Auth Store in flight.  loggedOut is history: whether
\* logout() has run since the request was issued.
AuthRequest(op, bearer) == [op |-> op, bearer |-> bearer, loggedOut |-> FALSE]
AfterLogout(pending) == [j \in 1..Len(pending) |-> [pending[j] EXCEPT !.loggedOut = TRUE]]
\* What an event keeps of the request that settled.
Settled(req, token) == [token |-> token, loggedOut |-> req.loggedOut]

\* login(email, password) and register(email, password, name) up to the await.
login(op) ==
    /\ Len(authPending) < MaxInFlight
    /\ AuthSet([isLoading |-> TRUE, error |-> Null])
    /\ authPending' = Append(authPending, AuthRequest(op, NoToken))
    /\ ev' = Event(op, Null, "none", Null)
    /\ UNCHANGED <<localStorage, uiVars, scen, lastOk, searchVars, jobVars, userVars>>

loginOk(i, token) ==
    /\ authPending[i].op \in {"login", "register"}
    /\ localStorage' = SetItem(AuthTokenKey, token)
    /\ AuthSet(LoginSuccessPatch(ServerUser))
    /\ authPending' = RemoveAt(authPending, i)
    /\ ev' = Event(authPending[i].op \o "Ok", Settled(authPending[i], token), "resolved", Null)
    /\ UNCHANGED <<uiVars, scen, lastOk, searchVars, jobVars, userVars>>

loginFail(i, m) ==
    /\ authPending[i].op \in {"login", "register"}
    /\ AuthSet([isLoading |-> FALSE,
                error |-> IF m # "" THEN m
                          ELSE IF authPending[i].op = "login" THEN DefaultLoginError
                               ELSE DefaultRegisterError])
    /\ authPending' = RemoveAt(authPending, i)
    /\ ev' = Event(authPending[i].op \o "Fail", [message |-> m], "rejected",
                   IF m # "" THEN m
                   ELSE IF authPending[i].op = "login" THEN DefaultLoginError
                        ELSE DefaultRegisterError)
    /\ UNCHANGED <<localStorage, uiVars, scen, lastOk, searchVars, jobVars, userVars>>

logout ==
    /\ localStorage' = RemoveItem(AuthTokenKey)
    /\ AuthSet(LogoutPatch)
    /\ authPending' = AfterLogout(authPending)
    /\ ev' = Event("logout", Null, "none", Null)
    /\ UNCHANGED <<uiVars, scen, lastOk, searchVars, jobVars, userVars>>

\* updateUser(userData): merges userData into the user, if there is one.
UpdateUserArgs == {[name |-> "renamed"]}
UpdateUserPatch(userData) ==
    IF user # NullUser THEN [user |-> Then(user, userData)] ELSE <<>>

updateUser(userData) ==
    /\ AuthSet(UpdateUserPatch(userData))
    /\ ev' = Event("updateUser", userData, "none", Null)
    /\ UNCHANGED <<authPending, localStorage, uiVars, scen, lastOk, searchVars, jobVars, userVars>>

\* refreshToken() up to the await: the request carries the stored token.
refreshToken ==
    /\ Len(authPending) < MaxInFlight
    /\ AuthSet([isLoading |-> TRUE])
    /\ authPending' = Append(authPending, AuthRequest("refreshToken", GetItem(AuthTokenKey)))
    /\ ev' = Event("refreshToken", GetItem(AuthTokenKey), "none", Null)
    /\ UNCHANGED <<localStorage, uiVars, scen, lastOk, searchVars, jobVars, userVars>>

refreshTokenOk(i, token) ==
    /\ authPending[i].op = "refreshToken"
    /\ localStorage' = SetItem(AuthTokenKey, token)
    /\ AuthSet(RefreshSuccessPatch(ServerUser))
    /\ authPending' = RemoveAt(authPending, i)
    /\ ev' = Event("refreshTokenOk", Settled(authPending[i], token), "resolved", Null)
    /\ UNCHANGED <<uiVars, scen, lastOk, searchVars, jobVars, userVars>>

\* The catch block logs the user out, then clears the flag; nothing is rethrown.
refreshTokenFail(i) ==
    /\ authPending[i].op = "refreshToken"
    /\ localStorage' = RemoveItem(AuthTokenKey)
    /\ AuthSet(Then(LogoutPatch, [isLoading |-> FALSE]))
    /\ authPending' = AfterLogout(RemoveAt(authPending, i))
    /\ ev' = Event("refreshTokenFail", Null, "resolved", Null)
    /\ UNCHANGED <<uiVars, scen, lastOk, searchVars, jobVars, userVars>>

(***************************************************************************)
(* UI Store                                                                *)
(***************************************************************************)
UISet(patch) ==
    /\ theme' = Field(patch, "theme", theme)
    /\ sidebarCollapsed' = Field(patch, "sidebarCollapsed", sidebarCollapsed)
    /\ sidebarVisible' = Field(patch, "sidebarVisible", sidebarVisible)
    /\ notifications' = Field(patch, "notifications", notifications)

ThemeArgs == {"light", "dark", "auto"}

setTheme(t) ==
    /\ UISet([theme |-> t])
    /\ ev' = Event("setTheme", t, "none", Null)
    /\ UNCHANGED <<timers, authVars, scen, lastOk, searchVars, jobVars, userVars>>

toggleSidebar ==
    /\ UISet([sidebarCollapsed |-> ~sidebarCollapsed])
    /\ ev' = Event("toggleSidebar", Null, "none", Null)
    /\ UNCHANGED <<timers, authVars, scen, lastOk, searchVars, jobVars, userVars>>

setSidebarVisible(visible) ==
    /\ UISet([sidebarVisible |-> visible])
    /\ ev' = Event("setSidebarVisible", visible, "none", Null)
    /\ UNCHANGED <<timers, authVars, scen, lastOk, searchVars, jobVars, userVars>>

setViewMode(mode) ==
    /\ SearchSet([viewMode |-> mode])
    /\ ev' = Event("setViewMode", mode, "none", Null)
    /\ UNCHANGED <<shellVars, searchPending, scen, lastOk, jobVars, userVars>>

\* ---- UI Store: notifications
MaxNotificationsDefault == 5
\* What addNotification is called with: no duration, or duration 0.
NotificationArgs == {[title |-> "saved"], [title |-> "pinned", duration |-> 0]}
\* generateId(): an id no notification and no timer holds.
NotificationIds == 1..MaxNotificationIds
UsedIds == IdsOf(notifications) \cup timers
FreshId == CHOOSE id \in NotificationIds \ UsedIds : \A k \in NotificationIds \ UsedIds : id <= k

\* Faulty variant: only a notification that names a duration gets a timer.
StartsTimerWhenNamed(notification) ==
    "duration" \in DOMAIN notification /\ notification.duration # 0

\* notification.duration !== 0: a timeout is set, of notification.duration ms
\* or of 5000 ms when none is named (time is not modelled: it fires at some point).
StartsTimer(notification) ==
    ~("duration" \in DOMAIN notification /\ notification.duration = 0)
\* { ...notification, id, createdAt } (the time is not modelled)
NewNotification(notification, id) ==
    [k \in DOMAIN notification \cup {"id"} |-> IF k = "id" THEN id ELSE notification[k]]

\* Faulty variant: the new notification goes to the end before the cut.
AddNotificationAtEnd(new) ==
    [notifications |-> Slice0(notifications \o <<new>>, MaxNotificationsDefault)]
\* The newest first, the list cut to maxNotifications.
AddNotificationPatch(new) ==
    [notifications |-> Slice0(<<new>> \o notifications, MaxNotificationsDefault)]

addNotification(notification) ==
    /\ NotificationIds \ UsedIds # {}
    /\ UISet(AddNotificationPatch(NewNotification(notification, FreshId)))
    /\ timers' = IF StartsTimer(notification) THEN timers \cup {FreshId} ELSE timers
    /\ ev' = Event("addNotification", NewNotification(notification, FreshId), "none", Null)
    /\ UNCHANGED <<authVars, scen, lastOk, searchVars, jobVars, userVars>>

RemoveNotificationPatch(id) ==
    [notifications |-> SelectSeq(notifications, LAMBDA item : OtherId(item, id))]

removeNotification(id) ==
    /\ UISet(RemoveNotificationPatch(id))
    /\ ev' = Event("removeNotification", id, "none", Null)
    /\ UNCHANGED <<timers, authVars, scen, lastOk, searchVars, jobVars, userVars>>

\* The timeout of notification id fires: it calls removeNotification(id).
timerFires(id) ==
    /\ id \in timers
    /\ UISet(RemoveNotificationPatch(id))
    /\ timers' = timers \ {id}
    /\ ev' = Event("timerFires", id, "none", Null)
    /\ UNCHANGED <<authVars, scen, lastOk, searchVars, jobVars, userVars>>

clearNotifications ==
    /\ UISet([notifications |-> <<>>])
    /\ ev' = Event("clearNotifications", Null, "none", Null)
    /\ UNCHANGED <<timers, authVars, scen, lastOk, searchVars, jobVars, userVars>>

(***************************************************************************)
(* The persist middleware and a page reload                                *)
(***************************************************************************)
\* The state of each store as one object, and the object its creator returns.
SearchState ==
    [query |-> query, filters |-> filters, isSearching |-> isSearching, error |-> error,
     results |-> results, totalResults |-> totalResults, currentPage |-> currentPage,
     pageSize |-> pageSize, sortBy |-> sortBy, searchHistory |-> searchHistory,
     viewMode |-> viewMode]
SearchInitialState ==
    [query |-> InitialQuery, filters |-> InitialFilters, isSearching |-> FALSE, error |-> Null,
     results |-> <<>>, totalResults |-> 0, currentPage |-> 1,
     pageSize |-> InitialPageSize, sortBy |-> "relevance", searchHistory |-> <<>>,
     viewMode |-> "grid"]
JobState ==
    [currentJob |-> currentJob, isLoadingJob |-> isLoadingJob, jobError |-> jobError,
     favoriteJobs |-> favoriteJobs, isFavoriteLoading |-> isFavoriteLoading,
     applications |-> applications, isApplicationLoading |-> isApplicationLoading,
     viewHistory |-> viewHistory, recommendedJobs |-> recommendedJobs,
     isRecommendationLoading |-> isRecommendationLoading, similarJobs |-> similarJobs]
JobInitialState ==
    [currentJob |-> NullJob, isLoadingJob |-> FALSE, jobError |-> Null,
     favoriteJobs |-> <<>>, isFavoriteLoading |-> FALSE,
     applications |-> <<>>, isApplicationLoading |-> FALSE,
     viewHistory |-> <<>>, recommendedJobs |-> <<>>,
     isRecommendationLoading |-> FALSE, similarJobs |-> <<>>]
UserState ==
    [profile |-> profile, isProfileLoading |-> isProfileLoading, profileError |-> profileError,
     resumes |-> resumes, currentResume |-> currentResume, isResumeLoading |-> isResumeLoading,
     resumeError |-> resumeError, preferences |-> preferences,
     isPreferencesLoading |-> isPreferencesLoading, stats |-> stats]
UserInitialState ==
    [profile |-> Null, isProfileLoading |-> FALSE, profileError |-> Null,
     resumes |-> <<>>, currentResume |-> NullResume, isResumeLoading |-> FALSE,
     resumeError |-> Null, preferences |-> Null,
     isPreferencesLoading |-> FALSE, stats |-> Null]
AuthState ==
    [user |-> user, isAuthenticated |-> isAuthenticated, isLoading |-> isLoading,
     error |-> authError]
AuthInitialState ==
    [user |-> NullUser, isAuthenticated |-> FALSE, isLoading |-> FALSE, error |-> Null]
UIInitialState ==
    [theme |-> "auto", sidebarCollapsed |-> FALSE, sidebarVisible |-> TRUE,
     notifications |-> <<>>]

\* The keys each partialize picks.
SearchPersisted == {"searchHistory", "viewMode", "pageSize"}
JobPersisted == {"favoriteJobs", "viewHistory", "applications"}
UserPersisted == {"profile", "preferences"}
AuthPersisted == {"user", "isAuthenticated"}
UIPersisted == {"theme", "sidebarCollapsed"}

\* setItem of the middleware, run after every set: the JSON text of
\* partialize({...get()}).  A key the state does not have is picked as
\* undefined, and JSON.stringify leaves an undefined value out.
PersistWrite(state, keys) == [k \in keys \cap DOMAIN state |-> state[k]]
\* The JSON text of the search history: each entry as JSON.stringify writes it.
StoredHistory(history) == [i \in 1..Len(history) |-> Stringify(history[i])]
\* hydrate of the middleware: { ...currentState, ...persistedState }
Hydrate(initial, stored) == Then(initial, stored)

\* What the creator of the UI Store sets before it returns its state: it calls
\* handleResize() on a desktop window.  The store has no state yet, so the
\* state after this set is the patch alone.
HandleResizePatch == [sidebarVisible |-> TRUE]


\* The text under each store's key when the middleware reads it on load.  Four
\* stores set nothing while they are created: the text is that of the last set
\* of the session before.  The creator of the UI Store has just set
\* HandleResizePatch through the middleware, which wrote the text of that.
SearchStored ==
    [PersistWrite(SearchState, SearchPersisted) EXCEPT !.searchHistory = StoredHistory(@)]
JobStored == PersistWrite(JobState, JobPersisted)
UserStored == PersistWrite(UserState, UserPersisted)
AuthStored == PersistWrite(AuthState, AuthPersisted)
UIStored == PersistWrite(HandleResizePatch, UIPersisted)

\* The page is reloaded: the requests in flight and the timers are gone, each
\* store is created again and hydrated from its text in localStorage.
reload ==
    /\ SearchSet(Hydrate(SearchInitialState, SearchStored))
    /\ JobSet(Hydrate(JobInitialState, JobStored))
    /\ UserSet(Hydrate(UserInitialState, UserStored))
    /\ AuthSet(Hydrate(AuthInitialState, AuthStored))
    /\ UISet(Hydrate(UIInitialState, UIStored))
    /\ searchPending' = <<>>
    /\ jobPending' = <<>>
    /\ userCalls' = <<>>
    /\ authPending' = <<>>
    /\ timers' = {}
    /\ ev' = Event("reload",
                   [search |-> SearchState, job |-> JobState, user |-> UserState,
                    auth |-> AuthState,
                    ui |-> [theme |-> theme, sidebarCollapsed |-> sidebarCollapsed]],
                   "none", Null)
    /\ UNCHANGED <<localStorage, srvResumes, scen, lastOk>>

(***************************************************************************)
(* Specifications                                                          *)
(***************************************************************************)
\* The Search Store from a fresh page load: queries, filters, searches and
\* their outcomes.
InitSearch == InitSearchStore(<<>>) /\ InitJobStore(<<>>) /\ InitUserStore /\ InitGhost /\ InitShell

NextSearch ==
    \/ \E p \in SetQueryArgs : setQuery(p)
    \/ \E p \in SetFiltersArgs : setFilters(p)
    \/ \E a \in SearchArgs : search(a)
    \/ \E i \in 1..Len(searchPending) : \E r \in SearchResponses : searchOk(i, r)
    \/ \E i \in 1..Len(searchPending) : \E m \in FailureMessages : searchFail(i, m)
    \/ clearSearch
    \/ clearError

SpecSearch == InitSearch /\ [][NextSearch]_vars

\* Paging and sorting with a backend that answers every request.
NextPaging ==
    \/ \E n \in PageArgs : setPage(n)
    \/ \E n \in PageSizeArgs : setPageSize(n)
    \/ \E k \in SortByArgs : setSortBy(k)
    \/ search(NoArg)
    \/ \E i \in 1..Len(searchPending) : \E r \in SearchResponses : searchOk(i, r)

SpecPaging == InitSearch /\ [][NextPaging]_vars

\* Searches with explicit queries and clearHistory, from an empty history or
\* from a full one rehydrated from local storage.
InitHistory ==
    /\ \E h \in {<<>>, FullHistory} : InitSearchStore(h)
    /\ InitJobStore(<<>>)
    /\ InitUserStore
    /\ InitGhost /\ InitShell

NextHistory ==
    \/ \E a \in HistoryArgs : search(a)
    \/ \E i \in 1..Len(searchPending) : searchOk(i, OneResponse)
    \/ \E i \in 1..Len(searchPending) : searchFail(i, "backend down")
    \/ searchClearHistory

SpecHistory == InitHistory /\ [][NextHistory]_vars

\* The favorites of the Job Store.
NextFavorites ==
    \/ \E job \in FavoriteArgs : addToFavorites(job)
    \/ \E i \in 1..Len(jobPending) : addToFavoritesOk(i)
    \/ \E i \in 1..Len(jobPending) : \E m \in FailureMessages : addToFavoritesFail(i, m)
    \/ \E job \in FavoriteArgs : removeFromFavorites(job.id)
    \/ \E i \in 1..Len(jobPending) : removeFromFavoritesOk(i)
    \/ \E i \in 1..Len(jobPending) : \E m \in FailureMessages : removeFromFavoritesFail(i, m)

SpecFavorites == InitSearch /\ [][NextFavorites]_vars

\* The view history of the Job Store, from an empty history or from a full
\* one rehydrated from local storage.
InitViewHistory ==
    /\ InitSearchStore(<<>>)
    /\ \E h \in {<<>>, FullViewHistory} : InitJobStore(h)
    /\ InitUserStore
    /\ InitGhost /\ InitShell

NextViewHistory ==
    \/ \E job \in ViewArgs : jobAddToHistory(job)
    \/ jobClearHistory

SpecViewHistory == InitViewHistory /\ [][NextViewHistory]_vars

\* The resumes of the User Store: loading them while the list is empty and no
\* call runs, and choosing the default one, any number of times at once.
NextUser ==
    \/ resumes = <<>> /\ userCalls = <<>> /\ fetchResumes
    \/ \E i \in 1..Len(userCalls) : fetchResumesOk(i)
    \/ \E i \in 1..Len(userCalls) : fetchResumesFail(i, "")
    \/ \E id \in ResumeArgs : setDefaultResume(id)
    \/ \E i \in 1..Len(userCalls) : setDefaultResumeOk(i)
    \/ \E i \in 1..Len(userCalls) : \E m \in FailureMessages : setDefaultResumeFail(i, m)

SpecUser == InitSearch /\ [][NextUser]_vars

\* The read operations of the Job Store and the User Store against a backend
\* that fails every request, at most MaxInFlight of them running at once over
\* the two stores.
ReadsRunning == Len(jobPending) + Len(userCalls)

NextReads ==
    \/ ReadsRunning < MaxInFlight /\ \E id \in FetchJobArgs : fetchJob(id)
    \/ \E i \in 1..Len(jobPending) : \E m \in FailureMessages : fetchJobFail(i, m)
    \/ ReadsRunning < MaxInFlight /\ \E id \in FetchJobArgs : fetchSimilarJobs(id)
    \/ \E i \in 1..Len(jobPending) : \E m \in FailureMessages : fetchSimilarJobsFail(i, m)
    \/ ReadsRunning < MaxInFlight /\ fetchFavorites
    \/ \E i \in 1..Len(jobPending) : \E m \in FailureMessages : fetchFavoritesFail(i, m)
    \/ ReadsRunning < MaxInFlight /\ fetchApplications
    \/ \E i \in 1..Len(jobPending) : \E m \in FailureMessages : fetchApplicationsFail(i, m)
    \/ ReadsRunning < MaxInFlight /\ fetchRecommendations
    \/ \E i \in 1..Len(jobPending) : \E m \in FailureMessages : fetchRecommendationsFail(i, m)
    \/ ReadsRunning < MaxInFlight /\ fetchProfile
    \/ \E i \in 1..Len(userCalls) : \E m \in FailureMessages : fetchProfileFail(i, m)
    \/ ReadsRunning < MaxInFlight /\ fetchResumes
    \/ \E i \in 1..Len(userCalls) : \E m \in FailureMessages : fetchResumesFail(i, m)
    \/ ReadsRunning < MaxInFlight /\ fetchPreferences
    \/ \E i \in 1..Len(userCalls) : \E m \in FailureMessages : fetchPreferencesFail(i, m)
    \/ ReadsRunning < MaxInFlight /\ fetchStats
    \/ \E i \in 1..Len(userCalls) : \E m \in FailureMessages : fetchStatsFail(i, m)

SpecReads == InitSearch /\ [][NextReads]_vars

\* What the backend may hold when the page loads.
\* The state once the page has loaded what the backend holds.
InitLoaded ==
    /\ \E n \in 1..2 :
          /\ favoriteJobs = (IF n = 1 THEN ServerFavorites ELSE <<Job(2, 1), Job(1, 1)>>)
          /\ resumes = SubSeq(ServerResumes, 1, Len(ServerResumes) + 1 - n)
    /\ InitSearchStore(<<>>)
    /\ InitGhost /\ InitShell
    /\ currentJob = NullJob
    /\ isLoadingJob = FALSE
    /\ jobError = Null
    /\ isFavoriteLoading = FALSE
    /\ applications = ServerApplications
    /\ isApplicationLoading = FALSE
    /\ viewHistory = <<>>
    /\ recommendedJobs = ServerRecommendations
    /\ isRecommendationLoading = FALSE
    /\ similarJobs = <<>>
    /\ jobPending = <<>>
    /\ profile = ServerProfile
    /\ isProfileLoading = FALSE
    /\ profileError = Null
    /\ currentResume = FindDefault(resumes)
    /\ isResumeLoading = FALSE
    /\ resumeError = Null
    /\ preferences = ServerPreferences
    /\ isPreferencesLoading = FALSE
    /\ stats = ServerStats
    /\ userCalls = <<>>
    /\ srvResumes = resumes

\* The write operations of the Job Store and the User Store on a loaded
\* state, against a backend that fails every request, at most MaxInFlight of
\* them running at once over the two stores.
NextWrites ==
    \/ ReadsRunning < MaxInFlight /\ \E job \in FavoriteArgs : addToFavorites(job)
    \/ \E i \in 1..Len(jobPending) : \E m \in FailureMessages : addToFavoritesFail(i, m)
    \/ ReadsRunning < MaxInFlight /\ \E job \in FavoriteArgs : removeFromFavorites(job.id)
    \/ \E i \in 1..Len(jobPending) : \E m \in FailureMessages : removeFromFavoritesFail(i, m)
    \/ ReadsRunning < MaxInFlight /\ \E id \in ApplyArgs : applyToJob(id)
    \/ \E i \in 1..Len(jobPending) : \E m \in FailureMessages : applyToJobFail(i, m)
    \/ ReadsRunning < MaxInFlight /\ \E id \in UpdateApplicationArgs : updateApplication(id)
    \/ \E i \in 1..Len(jobPending) : \E m \in FailureMessages : updateApplicationFail(i, m)
    \/ ReadsRunning < MaxInFlight /\ updateProfile
    \/ \E i \in 1..Len(userCalls) : \E m \in FailureMessages : updateProfileFail(i, m)
    \/ ReadsRunning < MaxInFlight /\ \E data \in CreateArgs : createResume(data)
    \/ \E i \in 1..Len(userCalls) : \E m \in FailureMessages : createResumeFail(i, m)
    \/ ReadsRunning < MaxInFlight /\ \E id \in ResumeArgs : updateResume(id)
    \/ \E i \in 1..Len(userCalls) : \E m \in FailureMessages : updateResumeFail(i, m)
    \/ ReadsRunning < MaxInFlight /\ \E id \in ResumeArgs : deleteResume(id)
    \/ \E i \in 1..Len(userCalls) : \E m \in FailureMessages : deleteResumeFail(i, m)
    \/ ReadsRunning < MaxInFlight /\ updatePreferences
    \/ \E i \in 1..Len(userCalls) : \E m \in FailureMessages : updatePreferencesFail(i, m)

SpecWrites == InitLoaded /\ [][NextWrites]_vars

\* One session after another: the user changes persisted and other fields of
\* the five stores, reloads, and goes on.  One request runs at a time.
NoneRunning == searchPending = <<>> /\ jobPending = <<>> /\ userCalls = <<>> /\ authPending = <<>>

NextReload ==
    \/ NoneRunning /\ search(OverrideWithUndefined)
    \/ \E i \in 1..Len(searchPending) : searchOk(i, OneResponse)
    \/ setViewMode("list")
    \/ NoneRunning /\ setPageSize(50)
    \/ NoneRunning /\ addToFavorites(Job(1, 1))
    \/ \E i \in 1..Len(jobPending) : addToFavoritesOk(i)
    \/ NoneRunning /\ fetchProfile
    \/ \E i \in 1..Len(userCalls) : fetchProfileOk(i)
    \/ NoneRunning /\ login("login")
    \/ \E i \in 1..Len(authPending) : loginOk(i, "t1")
    \/ setTheme("dark")
    \/ toggleSidebar
    \/ setSidebarVisible(FALSE)
    \/ reload

SpecReload == InitSearch /\ [][NextReload]_vars

\* Logging in and out while the Job Store and the User Store issue requests
\* that need the token; the requests of the two stores fail.
NextAuth ==
    \/ \E op \in {"login", "register"} : login(op)
    \/ \E i \in 1..Len(authPending) : \E t \in Tokens : loginOk(i, t)
    \/ \E i \in 1..Len(authPending) : \E m \in FailureMessages : loginFail(i, m)
    \/ refreshToken
    \/ \E i \in 1..Len(authPending) : \E t \in Tokens : refreshTokenOk(i, t)
    \/ \E i \in 1..Len(authPending) : refreshTokenFail(i)
    \/ logout
    \/ ReadsRunning < MaxInFlight /\ addToFavorites(Job(1, 1))
    \/ \E i \in 1..Len(jobPending) : addToFavoritesFail(i, "")
    \/ ReadsRunning < MaxInFlight /\ fetchFavorites
    \/ \E i \in 1..Len(jobPending) : fetchFavoritesFail(i, "")
    \/ ReadsRunning < MaxInFlight /\ fetchProfile
    \/ \E i \in 1..Len(userCalls) : fetchProfileFail(i, "")

SpecAuth == InitSearch /\ [][NextAuth]_vars

\* Duplicating resumes before the list is loaded and after, with creations
\* that succeed or fail and a reading that may overlap them.
NextDuplicate ==
    \/ Len(userCalls) < MaxUserCalls /\ fetchResumes
    \/ \E i \in 1..Len(userCalls) : fetchResumesOk(i)
    \/ \E id \in DuplicateArgs : duplicateResume(id)
    \/ \E i \in 1..Len(userCalls) : createResumeOk(i)
    \/ \E i \in 1..Len(userCalls) : \E m \in FailureMessages : createResumeFail(i, m)

SpecDuplicate == InitSearch /\ [][NextDuplicate]_vars

\* The details of a job: fetchJob with the request for similar jobs it starts.
NextJobDetail ==
    \/ \E id \in FetchJobArgs : fetchJob(id)
    \/ \E i \in 1..Len(jobPending) : fetchJobOk(i)
    \/ \E i \in 1..Len(jobPending) : \E m \in FailureMessages : fetchJobFail(i, m)
    \/ \E i \in 1..Len(jobPending) : fetchSimilarJobsOk(i)
    \/ \E i \in 1..Len(jobPending) : \E m \in FailureMessages : fetchSimilarJobsFail(i, m)
    \/ clearCurrentJob

SpecJobDetail == InitSearch /\ [][NextJobDetail]_vars

\* The notifications of the UI Store; a timeout the page has set fires in the end.
NextNotifications ==
    \/ \E n \in NotificationArgs :
          (StartsTimer(n) => Cardinality(timers) < MaxTimers) /\ addNotification(n)
    \/ \E id \in IdsOf(notifications) : removeNotification(id)
    \/ \E id \in timers : timerFires(id)
    \/ clearNotifications

SpecNotifications == InitSearch /\ [][NextNotifications]_vars
FairNotifications ==
    SpecNotifications /\ \A id \in NotificationIds : WF_vars(timerFires(id))

\* Requests of the four stores that may stay unanswered while the page goes
\* on: at most MaxInFlight of them run at once over all the stores, and any
\* of them may be answered or failed at any time, or never.
Running == Len(searchPending) + Len(jobPending) + Len(userCalls) + Len(authPending)

NextHung ==
    \/ Running < MaxInFlight /\ search(NoArg)
    \/ \E i \in 1..Len(searchPending) : searchOk(i, OneResponse)
    \/ \E i \in 1..Len(searchPending) : searchFail(i, "")
    \/ clearSearch
    \/ Running < MaxInFlight /\ fetchJob(1)
    \/ \E i \in 1..Len(jobPending) : fetchJobFail(i, "")
    \/ clearCurrentJob
    \/ Running < MaxInFlight /\ addToFavorites(Job(1, 1))
    \/ \E i \in 1..Len(jobPending) : addToFavoritesFail(i, "")
    \/ Running < MaxInFlight /\ applyToJob(1)
    \/ \E i \in 1..Len(jobPending) : applyToJobFail(i, "")
    \/ Running < MaxInFlight /\ fetchResumes
    \/ \E i \in 1..Len(userCalls) : fetchResumesOk(i)
    \/ \E i \in 1..Len(userCalls) : fetchResumesFail(i, "")
    \/ Running < MaxInFlight /\ login("login")
    \/ \E i \in 1..Len(authPending) : loginOk(i, "t1")
    \/ \E i \in 1..Len(authPending) : loginFail(i, "")
    \/ Running < MaxInFlight /\ refreshToken
    \/ \E i \in 1..Len(authPending) : refreshTokenFail(i)
    \/ logout

SpecHung == InitSearch /\ [][NextHung]_vars

\* Searching with or without an explicit query, then paging and sorting what
\* is shown; the backend answers every request.
NextDisplayed ==
    \/ \E a \in SearchArgs : search(a)
    \/ \E i \in 1..Len(searchPending) : \E r \in SearchResponses : searchOk(i, r)
    \/ \E n \in PageArgs : setPage(n)
    \/ \E n \in PageSizeArgs : setPageSize(n)
    \/ \E k \in SortByArgs : setSortBy(k)

SpecDisplayed == InitSearch /\ [][NextDisplayed]_vars

\* The session of the Auth Store: logging in, registering, refreshing the
\* token, editing the user and logging out, with requests that overlap and
\* succeed or fail.
NextSession ==
    \/ \E op \in {"login", "register"} : login(op)
    \/ \E i \in 1..Len(authPending) : \E t \in Tokens : loginOk(i, t)
    \/ \E i \in 1..Len(authPending) : \E m \in FailureMessages : loginFail(i, m)
    \/ refreshToken
    \/ \E i \in 1..Len(authPending) : \E t \in Tokens : refreshTokenOk(i, t)
    \/ \E i \in 1..Len(authPending) : refreshTokenFail(i)
    \/ \E d \in UpdateUserArgs : updateUser(d)
    \/ logout

SpecSession == InitSearch /\ [][NextSession]_vars

\* Choosing the default resume twice at once on a loaded list, against a
\* backend that applies and echoes every update: a call starts alone or
\* beside one call for another resume that no call has overlapped yet.
NextOverlap ==
    \/ \E id \in ResumeArgs :
          /\ id \in IdsOf(resumes)
          /\ \A j \in 1..Len(userCalls) : userCalls[j].clean /\ userCalls[j].id # id
          /\ setDefaultResume(id)
    \/ \E i \in 1..Len(userCalls) : setDefaultResumeOk(i)

SpecOverlap == InitLoaded /\ [][NextOverlap]_vars

(***************************************************************************)
(* Search Store: properties                                                *)
(***************************************************************************)
HistoryBounded == Len(searchHistory) <= SearchHistoryCap
NoTwoDeepEqual ==
    \A i, j \in 1..Len(searchHistory) :
        i < j => ~DeepEqual(searchHistory[i], searchHistory[j])
NoTwoSameText ==
    \A i, j \in 1..Len(searchHistory) :
        i < j => Stringify(searchHistory[i]) # Stringify(searchHistory[j])
LastOkFirst == Len(searchHistory) >= 1 /\ searchHistory[1] = lastOk.q

\* C1: after any searches (succeeding or failing, overlapping or not) and
\* clearHistory calls, searchHistory has at most 10 entries, no two of them
\* deep-equal, and, a search having succeeded since the last clearHistory, the
\* query of the last one to succeed first.
C1_Original ==
    /\ HistoryBounded
    /\ NoTwoDeepEqual
    /\ (lastOk.q # NoQuery /\ ~lastOk.cleared) => LastOkFirst

\* What addToHistory does ensure: no two entries with the same JSON text.
C1_SearchHistoryBound ==
    /\ HistoryBounded
    /\ NoTwoSameText
    /\ (lastOk.q # NoQuery /\ ~lastOk.cleared) => LastOkFirst

\* C1 witness: a search has just succeeded on a full history; its query is
\* first, the list still has 10 entries, and two deep-equal queries are in it.
C1_Witness ==
    /\ ev.op = "searchOk"
    /\ Len(searchHistory) = SearchHistoryCap
    /\ searchHistory[1] = lastOk.q
    /\ \E i, j \in 1..Len(searchHistory) :
          i < j /\ DeepEqual(searchHistory[i], searchHistory[j])

RequestCore(r) == [q |-> r.q, page |-> r.page, pageSize |-> r.pageSize, sortBy |-> r.sortBy]
PendingCores(p) == [j \in 1..Len(p) |-> RequestCore(p[j])]

\* A step leaves every request in flight in flight, except the one request
\* whose own response or failure the step handles.
NoSearchDropped ==
    \/ PendingCores(searchPending') = PendingCores(searchPending)
    \/ /\ Len(searchPending') = Len(searchPending) + 1
       /\ SubSeq(PendingCores(searchPending'), 1, Len(searchPending)) = PendingCores(searchPending)
    \/ /\ ev'.op \in {"searchOk", "searchFail"}
       /\ \E i \in 1..Len(searchPending) :
            /\ RequestCore(ev'.arg.req) = RequestCore(searchPending[i])
            /\ PendingCores(searchPending') = RemoveAt(PendingCores(searchPending), i)

StaleResponseShown ==
    (ev.op = "searchOk" /\ ev.arg.req.overtaken)
        => (results = ev.arg.response.jobs /\ totalResults = ev.arg.response.total)

\* C7: when a search issued earlier gets its response after a search issued
\* later got its own, results and totalResults are those of the earlier
\* search's response (the last response to arrive wins), and no step drops or
\* cancels a request in flight other than by handling its own outcome.
C7_StaleResponseWins == []StaleResponseShown /\ [][NoSearchDropped]_vars

\* C7 witness: an overtaken search has just resolved, for a query that is not
\* the one of the last search issued, and its response is what is shown.
C7_Witness ==
    /\ ev.op = "searchOk"
    /\ ev.arg.req.overtaken
    /\ ev.arg.req.q # query
    /\ ev.arg.prev # ev.arg.response.jobs
    /\ results = ev.arg.response.jobs

\* C8: with paging, page size, sorting and searches that all succeed, results
\* and totalResults are exactly the jobs and the total of the last response
\* that arrived (empty and 0 before the first), never one response's jobs
\* appended to another's.
C8_PaginationReplaces ==
    /\ results = lastOk.response.jobs
    /\ totalResults = lastOk.response.total
    /\ \A r1, r2 \in SearchResponses : results # r1.jobs \o r2.jobs

\* C8 witness: the response for page 2 arrived while another response's jobs
\* were shown, and only the new jobs are shown.
C8_Witness ==
    /\ ev.op = "searchOk"
    /\ ev.arg.req.page = 2
    /\ ev.arg.prev # <<>>
    /\ ev.arg.prev # ev.arg.response.jobs
    /\ results = ev.arg.response.jobs

KeywordOnlyArgs == {p \in SetQueryArgs : Keys(p) = {"keyword"}}

\* C9: from the initial state, setQuery({keyword: k}) then search() then a
\* successful response {jobs, total} end with results = jobs, totalResults =
\* total, isSearching false, error null and searchHistory holding exactly the
\* current query, which is the initial query with keyword k.
C9_EndToEndSearch ==
    scen = 3 =>
        /\ results = ev.arg.response.jobs
        /\ totalResults = ev.arg.response.total
        /\ isSearching = FALSE
        /\ error = Null
        /\ searchHistory = <<query>>
        /\ \E p \in KeywordOnlyArgs : query = [i \in 1..Len(InitialQuery) |->
              IF InitialQuery[i][1] = "keyword" THEN p[1] ELSE InitialQuery[i]]

\* C9 witness: the run has ended, with the keyword engineer.
C9_Witness ==
    /\ scen = 3
    /\ Get(query, "keyword") = "engineer"
    /\ results # <<>>
    /\ Len(searchHistory) = 1

SearchFailureFrame == UNCHANGED <<shellVars, results, totalResults, currentPage, query, filters>>

\* C10: the step that handles a failed search request makes the call resolve,
\* sets error to the failure's message (the generic message when the backend
\* gave none), sets isSearching false and leaves results, totalResults,
\* currentPage, query and filters as they were; the step that issued the
\* request left them alone as well.
C10_SearchFailureKeepsResults ==
    [][ /\ ev'.op = "searchFail" =>
            /\ ev'.outcome = "resolved"
            /\ error' # Null
            /\ ev'.arg.message # "" => error' = ev'.arg.message
            /\ ev'.arg.message = "" => error' = DefaultSearchError
            /\ isSearching' = FALSE
            /\ SearchFailureFrame
        /\ ev'.op = "search" => SearchFailureFrame ]_vars

\* C10 witness: a search has just failed while an earlier response's jobs are
\* shown; they still are, next to the error.
C10_Witness ==
    /\ ev.op = "searchFail"
    /\ results # <<>>
    /\ totalResults # 0
    /\ error = "backend down"
    /\ isSearching = FALSE

(***************************************************************************)
(* Job Store: properties                                                   *)
(***************************************************************************)
NoTwoShareId(list) == \A i, j \in 1..Len(list) : i < j => list[i].id # list[j].id
Pos(list, x) == CHOOSE a \in 1..Len(list) : list[a] = x
\* The entries of after from its second place on are entries of before, in
\* the order they have in before.
RestKeepsOrder(before, after) ==
    /\ \A i \in 2..Len(after) : \E a \in 1..Len(before) : before[a] = after[i]
    /\ \A i \in 2..(Len(after) - 1) : Pos(before, after[i]) < Pos(before, after[i + 1])

\* C2: the step addToHistory(job) leaves job at index 0 of viewHistory, no
\* two entries sharing an id, the other entries in the relative order they
\* had, and at most 50 entries; when an entry with job's id was present
\* before the step, the length is what it was.
C2_ViewHistoryMoveToFront ==
    [][ ev'.op = "jobAddToHistory" =>
            /\ Len(viewHistory') >= 1
            /\ viewHistory'[1] = ev'.arg
            /\ NoTwoShareId(viewHistory')
            /\ RestKeepsOrder(viewHistory, viewHistory')
            /\ Len(viewHistory') <= ViewHistoryCap
            /\ ev'.arg.id \in IdsOf(viewHistory) => Len(viewHistory') = Len(viewHistory) ]_vars

\* C2 witness: job 50 has just been viewed again, with other content, in a
\* history of 50 jobs where it was last: it is first, the job that was first
\* is second, and the history still has 50 jobs.
C2_Witness ==
    /\ ev.op = "jobAddToHistory"
    /\ ev.arg = Job(50, 2)
    /\ Len(viewHistory) = ViewHistoryCap
    /\ viewHistory[1] = Job(50, 2)
    /\ viewHistory[2] = Job(1, 1)
    /\ viewHistory[ViewHistoryCap] = Job(49, 1)

\* Every state field of the three stores but favoriteJobs and isFavoriteLoading.
FavoriteFailureFrame ==
    UNCHANGED <<shellVars, currentJob, isLoadingJob, jobError, applications, isApplicationLoading,
                viewHistory, recommendedJobs, isRecommendationLoading, similarJobs,
                searchVars, userVars>>

\* C3: addToFavorites(job) changes favoriteJobs only after the backend
\* confirmed.  The step that issues the request leaves favoriteJobs alone; the
\* step that handles the confirmation leaves an entry with job.id in it; the
\* step that handles a failure leaves favoriteJobs alone, rejects with the
\* backend's error (the generic message when the backend gave none), sets
\* isFavoriteLoading false and writes no other state field.
C3_AddToFavoritesAfterConfirm ==
    [][ /\ ev'.op = "addToFavorites" => favoriteJobs' = favoriteJobs
        /\ ev'.op = "addToFavoritesOk" =>
              /\ ev'.arg.job.id \in IdsOf(favoriteJobs')
              /\ ev'.outcome = "resolved"
        /\ ev'.op = "addToFavoritesFail" =>
              /\ favoriteJobs' = favoriteJobs
              /\ ev'.outcome = "rejected"
              /\ ev'.arg.message # "" => ev'.err = ev'.arg.message
              /\ ev'.arg.message = "" => ev'.err = DefaultAddFavoriteError
              /\ isFavoriteLoading' = FALSE
              /\ FavoriteFailureFrame ]_vars

\* C3 witness: adding job 2 has just failed with the backend's message while
\* job 1 is a favorite: job 1 still is the only one, and no error is stored.
C3_Witness ==
    /\ ev.op = "addToFavoritesFail"
    /\ ev.arg.job = Job(2, 1)
    /\ ev.err = "backend down"
    /\ favoriteJobs = <<Job(1, 1)>>
    /\ jobError = Null
    /\ isFavoriteLoading = FALSE

\* C4: when removeFromFavorites(id) is confirmed by the backend and no entry
\* of favoriteJobs has that id, favoriteJobs keeps its entries in their order
\* and the call resolves without error; the step that issued the request left
\* favoriteJobs alone as well.
C4_RemoveAbsentFavorite ==
    [][ /\ ev'.op = "removeFromFavorites" => favoriteJobs' = favoriteJobs
        /\ (ev'.op = "removeFromFavoritesOk" /\ ev'.arg.id \notin IdsOf(favoriteJobs)) =>
              /\ favoriteJobs' = favoriteJobs
              /\ ev'.outcome = "resolved"
              /\ ev'.err = Null ]_vars

\* C4 witness: the removal of job 2 has just been confirmed while the
\* favorites were job 1 alone, and they still are.
C4_Witness ==
    /\ ev.op = "removeFromFavoritesOk"
    /\ ev.arg.id = 2
    /\ ev.arg.prev = <<Job(1, 1)>>
    /\ favoriteJobs = <<Job(1, 1)>>

(***************************************************************************)
(* User Store: properties                                                  *)
(***************************************************************************)
\* C5: when setDefaultResume(newId) returns after running alone, with no
\* request failed, from a list with exactly one resume marked default, and the
\* backend applied and echoed each update, exactly one resume of resumes is
\* marked default and it is newId; and no call ever awaits a request that
\* clears the mark of the resume it was called for.
C5_SetDefaultResumeBestCase ==
    /\ (ev.op = "setDefaultResumeDone" /\ ev.arg.clean /\ ev.arg.oneDefault) =>
          /\ Cardinality(Defaults(resumes)) = 1
          /\ DefaultIds(resumes) = {ev.arg.id}
    /\ \A j \in 1..Len(userCalls) :
          userCalls[j].pc = "demote" => userCalls[j].target # userCalls[j].id

\* C5 witness: setDefaultResume(2) has just returned after demoting resume 1,
\* having run alone from a list with one default; resume 2 is the default.
C5_Witness ==
    /\ ev.op = "setDefaultResumeDone"
    /\ ev.arg.clean
    /\ ev.arg.oneDefault
    /\ ev.arg.id = 2
    /\ ev.arg.pc = "demote"
    /\ ev.arg.target = 1
    /\ DefaultIds(resumes) = {2}
    /\ DefaultIds(srvResumes) = {2}

\* The resumes the loop of call c has not reached yet and would demote.
StillToDemote(c) ==
    {c.snapshot[j].id : j \in {k \in c.idx..Len(c.snapshot) :
                                  c.snapshot[k].isDefault /\ c.snapshot[k].id # c.id}}

\* C6: when a demotion request of setDefaultResume fails (its promotion
\* having succeeded), the call rejects with that request's error, the step
\* changes neither resumes nor what the backend holds (no rollback), the call
\* is over (no further demotion request), and, the call having run alone, the
\* resumes marked default are the new one and every resume the loop had not
\* demoted yet: more than one.
C6_SetDefaultResumeFailure ==
    [][ (ev'.op = "setDefaultResumeFailed" /\ ev'.arg.pc = "demote") =>
            /\ ev'.outcome = "rejected"
            /\ ev'.err \in {"backend down", DefaultUpdateResumeError}
            /\ resumeError' = ev'.err
            /\ resumes' = resumes
            /\ srvResumes' = srvResumes
            /\ \E i \in 1..Len(userCalls) :
                  /\ CallInfo(userCalls[i]) = ev'.arg
                  /\ userCalls' = RemoveAt(userCalls, i)
                  /\ ev'.arg.clean =>
                        /\ DefaultIds(resumes') = {ev'.arg.id} \cup StillToDemote(userCalls[i])
                        /\ Cardinality(Defaults(resumes')) > 1 ]_vars

\* C6 witness: setDefaultResume(3), running alone, promoted resume 3 and
\* demoted resume 1, and the demotion of resume 2 has just failed: resumes 2
\* and 3 are marked default, resume 1 stays demoted, and the error is stored.
C6_Witness ==
    /\ ev.op = "setDefaultResumeFailed"
    /\ ev.arg.pc = "demote"
    /\ ev.arg.clean
    /\ ev.arg.id = 3
    /\ ev.arg.target = 2
    /\ DefaultIds(resumes) = {2, 3}
    /\ userCalls = <<>>
    /\ resumeError = ev.err

(***************************************************************************)
(* Search Store: history and requests                                      *)
(***************************************************************************)
\* C11 as stated: once a search() call has settled, with a success or with a
\* failure, the query it searched for is at index 0 of searchHistory.
C11_Original ==
    ev.op \in {"searchOk", "searchFail"} =>
        (Len(searchHistory) >= 1 /\ searchHistory[1] = ev.arg.req.q)

\* C11 amended: the step that handles a successful response leaves the query
\* searched for (the override if given, else the query current at the call)
\* at index 0 of searchHistory; the step that handles a failure, and the step
\* that issues the request, leave searchHistory as it was.
C11_SearchRecordsHistoryOnSuccess ==
    [][ /\ ev'.op = "searchOk" =>
              (Len(searchHistory') >= 1 /\ searchHistory'[1] = ev'.arg.req.q)
        /\ ev'.op \in {"searchFail", "search"} => searchHistory' = searchHistory ]_vars

\* C11 witness: a search for an override query has just failed while the
\* history holds other queries: the override is not in the history.
C11_Witness ==
    /\ ev.op = "searchFail"
    /\ ev.arg.req.q = OverrideQuery
    /\ Len(searchHistory) = SearchHistoryCap
    /\ \A i \in 1..Len(searchHistory) : searchHistory[i] # OverrideQuery

(***************************************************************************)
(* Read and write operations: what a backend failure does                  *)
(***************************************************************************)
JobReadFailures ==
    {"fetchJobFail", "fetchFavoritesFail", "fetchApplicationsFail",
     "fetchRecommendationsFail", "fetchSimilarJobsFail"}
UserReadFailures ==
    {"fetchProfileFail", "fetchResumesFail", "fetchPreferencesFail", "fetchStatsFail"}
\* The read operations whose catch block only logs.
LoggedOnly ==
    {"fetchFavoritesFail", "fetchApplicationsFail", "fetchRecommendationsFail",
     "fetchSimilarJobsFail", "fetchPreferencesFail", "fetchStatsFail"}
ErrorFieldsUnchanged == UNCHANGED <<shellVars, jobError, profileError, resumeError, error>>

\* C12 as stated: when a fetch* action of the Job Store or the User Store has
\* failed, the action did not reject and the failure's message is in an error
\* field of its store.
C12_Original ==
    /\ ev.op \in JobReadFailures =>
          (ev.outcome # "rejected" /\ jobError = ev.arg.error)
    /\ ev.op \in UserReadFailures =>
          (ev.outcome # "rejected" /\ ev.arg.error \in {profileError, resumeError})

\* C12 amended: a backend failure makes no fetch* action reject; fetchJob,
\* fetchProfile and fetchResumes store the failure's message in jobError,
\* profileError and resumeError and clear their loading flag; the failure
\* step of fetchFavorites, fetchApplications, fetchRecommendations,
\* fetchSimilarJobs, fetchPreferences and fetchStats writes no error field.
C12_ReadsSwallowErrors ==
    [][ /\ ev'.op \in JobReadFailures \cup UserReadFailures => ev'.outcome = "resolved"
        /\ ev'.op = "fetchJobFail" => (jobError' = ev'.arg.error /\ isLoadingJob' = FALSE)
        /\ ev'.op = "fetchProfileFail" =>
              (profileError' = ev'.arg.error /\ isProfileLoading' = FALSE)
        /\ ev'.op = "fetchResumesFail" =>
              (resumeError' = ev'.arg.error /\ isResumeLoading' = FALSE)
        /\ ev'.op \in LoggedOnly => ErrorFieldsUnchanged ]_vars

\* C12 witness: fetchFavorites has just failed with the backend's message,
\* and no error field of the Job Store holds it.
C12_Witness ==
    /\ ev.op = "fetchFavoritesFail"
    /\ ev.outcome = "resolved"
    /\ ev.arg.error = "backend down"
    /\ jobError = Null
    /\ isFavoriteLoading = FALSE


\* The write operations, each with the generic message of its service method.
WriteFailures ==
    [addToFavoritesFail |-> DefaultAddFavoriteError,
     removeFromFavoritesFail |-> DefaultRemoveFavoriteError,
     applyToJobFail |-> DefaultApplyError,
     updateApplicationFail |-> DefaultUpdateApplicationError,
     updateProfileFail |-> DefaultUpdateProfileError,
     createResumeFail |-> DefaultCreateResumeError,
     updateResumeFail |-> DefaultUpdateResumeError,
     deleteResumeFail |-> DefaultDeleteResumeError,
     updatePreferencesFail |-> DefaultUpdatePreferencesError]

\* The collection and the loading flag of a write operation are those of its group.
WriteGroup(op) ==
    CASE op \in {"addToFavoritesFail", "removeFromFavoritesFail"} -> "favorites"
      [] op \in {"applyToJobFail", "updateApplicationFail"} -> "applications"
      [] op = "updateProfileFail" -> "profile"
      [] op = "updatePreferencesFail" -> "preferences"
      [] OTHER -> "resumes"

\* C13: when the backend fails a write operation (addToFavorites,
\* removeFromFavorites, applyToJob, updateApplication, updateProfile,
\* createResume, updateResume, deleteResume, updatePreferences), the collection
\* the operation writes is left as it was, its loading flag is false
\* afterwards, and the call rejects with the error of the backend (the message
\* of the response, or the generic message of the operation when the response
\* has none).
C13_WriteFailureLeavesCollection ==
    [][ev'.op \in DOMAIN WriteFailures =>
          /\ ev'.outcome = "rejected"
          /\ ev'.err = (IF ev'.arg.message = "" THEN WriteFailures[ev'.op] ELSE ev'.arg.message)
          /\ CASE WriteGroup(ev'.op) = "favorites" ->
                      favoriteJobs' = favoriteJobs /\ isFavoriteLoading' = FALSE
               [] WriteGroup(ev'.op) = "applications" ->
                      applications' = applications /\ isApplicationLoading' = FALSE
               [] WriteGroup(ev'.op) = "profile" ->
                      profile' = profile /\ isProfileLoading' = FALSE
               [] WriteGroup(ev'.op) = "preferences" ->
                      preferences' = preferences /\ isPreferencesLoading' = FALSE
               [] OTHER ->
                      /\ resumes' = resumes
                      /\ currentResume' = currentResume
                      /\ isResumeLoading' = FALSE]_vars

\* A creation of a resume has just failed with a message of the backend while
\* another write was still running, and the resumes and the favorites are
\* still there.
C13_Witness ==
    /\ ev.op = "createResumeFail"
    /\ ev.outcome = "rejected"
    /\ ev.err = "backend down"
    /\ userCalls # <<>>
    /\ Len(resumes) = 3
    /\ favoriteJobs # <<>>
    /\ ~isResumeLoading


\* C14 (as stated): the request of search() is determined by the query and the
\* filters together: when setFilters changes the filters and nothing else, the
\* request search() would issue after it differs from the one it would have
\* issued before it.
C14_Original ==
    [][ev'.op = "setFilters" /\ filters' # filters =>
          RequestCore(SearchRequest(<<>>, NoArg))' # RequestCore(SearchRequest(<<>>, NoArg))]_vars

\* The filters have been changed and search() has issued two requests since:
\* the two are the same request, the one the untouched filters would give.
C14_Witness ==
    /\ ev.op = "search"
    /\ Len(searchPending) = 2
    /\ Get(filters, "publishedDate") = "week"
    /\ RequestCore(searchPending[1]) = RequestCore(searchPending[2])

\* The persisted fields of the Search, Job, User and Auth Store after a reload
\* are those of before (a history entry being equal to another when the two
\* have the same JSON text), and each other field of the four stores has the
\* value the creator of its store gives it.
ReloadKeepsFourStores ==
    /\ searchHistory' = StoredHistory(searchHistory)
    /\ viewMode' = viewMode /\ pageSize' = pageSize
    /\ favoriteJobs' = favoriteJobs /\ viewHistory' = viewHistory
    /\ applications' = applications
    /\ profile' = profile /\ preferences' = preferences
    /\ user' = user /\ isAuthenticated' = isAuthenticated
    /\ \A k \in DOMAIN SearchInitialState \ SearchPersisted : SearchState'[k] = SearchInitialState[k]
    /\ \A k \in DOMAIN JobInitialState \ JobPersisted : JobState'[k] = JobInitialState[k]
    /\ \A k \in DOMAIN UserInitialState \ UserPersisted : UserState'[k] = UserInitialState[k]
    /\ \A k \in DOMAIN AuthInitialState \ AuthPersisted : AuthState'[k] = AuthInitialState[k]

\* C15 (as stated): after a page reload the persisted fields of each store
\* (auth: user, isAuthenticated; job: favoriteJobs, viewHistory, applications;
\* search: searchHistory, viewMode, pageSize; ui: theme, sidebarCollapsed;
\* user: profile, preferences) have the values they had before the reload, and
\* every other field of every store has its initial default.
C15_Original ==
    [][ev'.op = "reload" =>
          /\ ReloadKeepsFourStores
          /\ theme' = theme /\ sidebarCollapsed' = sidebarCollapsed
          /\ sidebarVisible' = UIInitialState.sidebarVisible
          /\ notifications' = UIInitialState.notifications]_vars

\* C15, the part that holds: what the claim says of the Search, Job, User and
\* Auth Store, and of the fields of the UI Store that are not persisted.
C15_ReloadOfTheOtherStores ==
    [][ev'.op = "reload" =>
          /\ ReloadKeepsFourStores
          /\ sidebarVisible' = UIInitialState.sidebarVisible
          /\ notifications' = UIInitialState.notifications]_vars

\* The page was reloaded with a dark theme, a collapsed sidebar, a logged-in
\* user, a favorite and a search history: the theme is back to its default.
C15_Witness ==
    /\ ev.op = "reload"
    /\ ev.arg.ui.theme = "dark"
    /\ ev.arg.ui.sidebarCollapsed
    /\ theme = "auto"
    /\ ~sidebarCollapsed
    /\ isAuthenticated
    /\ favoriteJobs # <<>>
    /\ searchHistory # <<>>
    /\ viewMode = "list"

\* The steps that issue a request with an Authorization header, and the
\* request such a step has just issued.
BearerSteps == {"addToFavorites", "fetchFavorites", "fetchProfile"}
IssuedBearer ==
    IF ev.op = "fetchProfile" THEN userCalls[Len(userCalls)].bearer
    ELSE jobPending[Len(jobPending)].bearer

\* C16 (as stated): between a login, register or refreshToken that succeeded
\* and the next logout, that is while the Auth Store's token is in
\* localStorage, every request the Job Store or the User Store issues with an
\* Authorization header carries the token the Auth Store wrote last.
C16_Original ==
    (ev.op \in BearerSteps /\ GetItem(AuthTokenKey) # NoToken)
        => IssuedBearer = GetItem(AuthTokenKey)

\* The user is logged in, the token is stored, and the Job Store has just
\* issued a request whose header carries no token.
C16_Witness ==
    /\ ev.op = "fetchFavorites"
    /\ isAuthenticated
    /\ GetItem(AuthTokenKey) = "t2"
    /\ IssuedBearer = NoToken

\* C17: duplicateResume(id).  When no resume of the list has the id, the call
\* rejects, no request is issued and the state of the store is as it was.
\* Otherwise exactly one request is issued, a creation whose body is not
\* default and has no id, createdAt or updatedAt.  When that creation
\* succeeds, every resume of the list (the original among them) is still
\* there as it was, the copy follows them, the resumes marked default are the
\* same as before, and no further request is issued.
C17_DuplicateResume ==
    [][/\ (ev'.op = "duplicateResume" /\ ev'.arg \notin IdsOf(resumes)) =>
              /\ ev'.outcome = "rejected"
              /\ ev'.err = ResumeNotFoundError
              /\ UNCHANGED userVars
       /\ (ev'.op = "duplicateResume" /\ ev'.arg \in IdsOf(resumes)) =>
              LET c == userCalls'[Len(userCalls')]
              IN  /\ ev'.outcome = "none"
                  /\ Len(userCalls') = Len(userCalls) + 1
                  /\ PendingCreates' = PendingCreates + 1
                  /\ c.pc = "create"
                  /\ c.payload.isDefault = FALSE
                  /\ c.payload.name = CopyName(FindById(resumes, ev'.arg).name)
                  /\ DOMAIN c.payload \cap {"id", "createdAt", "updatedAt"} = {}
                  /\ resumes' = resumes
       /\ ev'.op = "duplicateResumeOk" =>
              /\ Len(resumes') = Len(resumes) + 1
              /\ SubSeq(resumes', 1, Len(resumes)) = resumes
              /\ ev'.arg.call.id \in IdsOf(resumes')
              /\ FindById(resumes', ev'.arg.call.id) = FindById(resumes, ev'.arg.call.id)
              /\ resumes'[Len(resumes')].name = ev'.arg.payload.name
              /\ DefaultIds(resumes') = DefaultIds(resumes)
              /\ currentResume' = currentResume
              /\ Len(userCalls') = Len(userCalls) - 1
              /\ PendingCreates' = PendingCreates - 1]_vars

\* The default resume has been duplicated: the copy is last in the list, it
\* is not default, and the original is still the only default.
C17_Witness ==
    /\ ev.op = "duplicateResumeOk"
    /\ ev.arg.call.id = 1
    /\ Len(resumes) = 4
    /\ resumes[1] = Resume(1, "cv-a", TRUE)
    /\ resumes[4].name = "cv-a (copy)"
    /\ DefaultIds(resumes) = {1}

\* The notifications of the list that were added with duration 0.
Pinned(list) == {list[i].id : i \in {k \in 1..Len(list) :
                                        "duration" \in DOMAIN list[k] /\ list[k].duration = 0}}

\* C18: a notification added with a duration other than 0, or with none, has a
\* timer, and once the timer fires the notification is not in the list: it is
\* absent in the end whatever else happens in between.  A notification added
\* with duration 0 has no timer; it leaves the list only by removeNotification
\* of its id, by clearNotifications, or as the oldest of a full list when
\* another is added.
C18_NotificationExpiry ==
    /\ \A id \in NotificationIds : (id \in timers) ~> (id \notin IdsOf(notifications))
    /\ [][/\ ev'.op = "addNotification" =>
                 /\ notifications'[1] = ev'.arg
                 /\ (ev'.arg.id \in timers') = (ev'.arg.id \notin Pinned(notifications'))
          /\ ev'.op = "timerFires" => ev'.arg \notin IdsOf(notifications')
          /\ \A id \in Pinned(notifications) \ IdsOf(notifications') :
                 \/ ev'.op = "removeNotification" /\ ev'.arg = id
                 \/ ev'.op = "clearNotifications"
                 \/ /\ ev'.op = "addNotification"
                    /\ Len(notifications) = MaxNotificationsDefault
                    /\ notifications[Len(notifications)].id = id
          /\ Pinned(notifications) \cap timers = {}]_vars

\* A notification with a timer sat between two without one in a full list;
\* its timer has fired and only it is gone.
C18_Witness ==
    /\ ev.op = "timerFires"
    /\ Len(notifications) = MaxNotificationsDefault - 1
    /\ Cardinality(Pinned(notifications)) >= 2
    /\ ev.arg \notin IdsOf(notifications)
    /\ \E i \in 1..(Len(notifications) - 1) :
           notifications[i].id > ev.arg /\ notifications[i + 1].id < ev.arg

SimilarPending(pending) == Len(SelectSeq(pending, LAMBDA r : r.op = "fetchSimilarJobs"))

\* C19: fetchJob(id).  When the backend answers with the job: currentJob is
\* the job and isLoadingJob is false, the job is first in viewHistory (once,
\* the rest in the order it had), one request for the similar jobs of id has
\* been issued and is still running, and fetchJob has settled.  When the
\* backend fails: jobError holds the message, isLoadingJob is false,
\* currentJob and viewHistory are as they were, no request for similar jobs
\* is issued, and fetchJob resolves.  The similar-jobs request, however it
\* ends, touches none of currentJob, viewHistory, jobError, isLoadingJob.
C19_FetchJobSteps ==
    [][/\ ev'.op = "fetchJobOk" =>
              /\ currentJob' = ev'.arg
              /\ isLoadingJob' = FALSE
              /\ viewHistory' # <<>> /\ viewHistory'[1] = ev'.arg
              /\ SubSeq(viewHistory', 2, Len(viewHistory'))
                     = SelectSeq(viewHistory, LAMBDA item : OtherId(item, ev'.arg.id))
              /\ SimilarPending(jobPending') = SimilarPending(jobPending) + 1
              /\ jobPending'[Len(jobPending')].op = "fetchSimilarJobs"
              /\ jobPending'[Len(jobPending')].arg = ev'.arg.id
              /\ ev'.outcome = "resolved"
              /\ jobError' = jobError
       /\ ev'.op = "fetchJobFail" =>
              /\ jobError' = ev'.arg.error
              /\ isLoadingJob' = FALSE
              /\ currentJob' = currentJob
              /\ viewHistory' = viewHistory
              /\ SimilarPending(jobPending') = SimilarPending(jobPending)
              /\ Len(jobPending') = Len(jobPending) - 1
              /\ ev'.outcome = "resolved"
       /\ ev'.op \in {"fetchSimilarJobsOk", "fetchSimilarJobsFail"} =>
              UNCHANGED <<currentJob, viewHistory, jobError, isLoadingJob>>]_vars

\* Job 1 was viewed, then job 2, then job 1 again: job 1 is on display and
\* first in the history, job 2 behind it, and the request for the similar
\* jobs of job 1 is still running.
C19_Witness ==
    /\ ev.op = "fetchJobOk"
    /\ currentJob = Job(1, 1)
    /\ viewHistory = <<Job(1, 1), Job(2, 1)>>
    /\ ~isLoadingJob
    /\ \E i \in 1..Len(jobPending) : jobPending[i].op = "fetchSimilarJobs" /\ jobPending[i].arg = 1

\* The request the last step has issued.
LastIssued == searchPending[Len(searchPending)]

\* C20: the request setPage(n) issues carries page n, the one setPageSize(s)
\* issues carries page size s and page 1, the one setSortBy(k) issues carries
\* sort key k and page 1: search() reads the parameters after the set, also
\* when another search is in flight.  The other parameters are those of the
\* state.
C20_SetThenReread ==
    [][ev'.op \in {"setPage", "setPageSize", "setSortBy"} =>
          /\ Len(searchPending') = Len(searchPending) + 1
          /\ LastIssued'.q = query
          /\ ev'.op = "setPage" =>
                 /\ LastIssued'.page = ev'.arg /\ currentPage' = ev'.arg
                 /\ LastIssued'.pageSize = pageSize /\ LastIssued'.sortBy = sortBy
          /\ ev'.op = "setPageSize" =>
                 /\ LastIssued'.pageSize = ev'.arg /\ LastIssued'.page = 1
                 /\ pageSize' = ev'.arg /\ currentPage' = 1
                 /\ LastIssued'.sortBy = sortBy
          /\ ev'.op = "setSortBy" =>
                 /\ LastIssued'.sortBy = ev'.arg /\ LastIssued'.page = 1
                 /\ sortBy' = ev'.arg /\ currentPage' = 1
                 /\ LastIssued'.pageSize = pageSize]_vars

\* setPageSize(50) ran on page 2 while the search of setPage(2) was still in
\* flight: the new request has page size 50 and page 1, the old one page 2.
C20_Witness ==
    /\ ev.op = "setPageSize"
    /\ ev.arg = 50
    /\ Len(searchPending) = 2
    /\ searchPending[1].page = 2 /\ searchPending[1].pageSize = InitialPageSize
    /\ LastIssued.page = 1 /\ LastIssued.pageSize = 50


(***************************************************************************)
(* Requests that never settle                                              *)
(***************************************************************************)
\* The requests in flight that, once settled, write a flag: those of pending
\* whose operation is one of ops.
Outstanding(pending, ops) == Len(SelectSeq(pending, LAMBDA r : r.op \in ops))
FavoriteOps == {"addToFavorites", "removeFromFavorites", "fetchFavorites"}
ApplicationOps == {"applyToJob", "updateApplication", "fetchApplications"}
ResumeOps == {"fetchResumes", "createResume", "duplicateResume", "updateResume",
              "deleteResume", "setDefaultResume"}
AuthOps == {"login", "register", "refreshToken"}

\* A step in which a request was issued for the flag raises it, and a step
\* in which none of the flag's requests settled leaves a raised flag raised.
Pinned21(before, after, flag, flagAfter) ==
    /\ after > before => flagAfter
    /\ (before > 0 /\ after >= before /\ flag) => flagAfter

\* C21: while a request of a store action is in flight and no action that
\* writes the same loading flag completes, the flag (isSearching,
\* isLoadingJob, isFavoriteLoading, isApplicationLoading, isResumeLoading,
\* isLoading) stays true: issuing the request raises it and no other step,
\* of this store or another, clears it.
C21_HungRequestPinsFlag ==
    [][/\ Pinned21(Len(searchPending), Len(searchPending'), isSearching, isSearching')
       /\ Pinned21(Outstanding(jobPending, {"fetchJob"}), Outstanding(jobPending', {"fetchJob"}),
                   isLoadingJob, isLoadingJob')
       /\ Pinned21(Outstanding(jobPending, FavoriteOps), Outstanding(jobPending', FavoriteOps),
                   isFavoriteLoading, isFavoriteLoading')
       /\ Pinned21(Outstanding(jobPending, ApplicationOps),
                   Outstanding(jobPending', ApplicationOps),
                   isApplicationLoading, isApplicationLoading')
       /\ Pinned21(Outstanding(userCalls, ResumeOps), Outstanding(userCalls', ResumeOps),
                   isResumeLoading, isResumeLoading')
       /\ Pinned21(Outstanding(authPending, AuthOps), Outstanding(authPending', AuthOps),
                   isLoading, isLoading')]_vars

\* A login and a search are in flight, both flags are up, and the user has
\* just logged out in between.
C21_Witness ==
    /\ ev.op = "logout"
    /\ Outstanding(authPending, AuthOps) = 1 /\ isLoading
    /\ Len(searchPending) = 1 /\ isSearching

(***************************************************************************)
(* Two setDefaultResume calls at once                                      *)
(***************************************************************************)
\* The last of two overlapping setDefaultResume calls has just returned.
BothCompleted ==
    /\ ev.op = "setDefaultResumeDone"
    /\ ~ev.arg.clean
    /\ userCalls = <<>>

\* C22: when setDefaultResume(a) and setDefaultResume(b), a # b, overlap and
\* every request succeeds with the backend echoing each update, then once
\* both calls have completed exactly one resume of resumes is marked default.
C22_Original == BothCompleted => Cardinality(Defaults(resumes)) = 1

\* Both calls have completed, every request succeeded, and no resume is
\* marked default, in the page or in the backend.
C22_Witness ==
    /\ BothCompleted
    /\ Defaults(resumes) = {}
    /\ Defaults(srvResumes) = {}

\* What does hold of two overlapping calls that succeed: never more than one
\* resume is left marked default, and the page shows what the backend holds.
C22_AtMostOneDefault ==
    BothCompleted => Cardinality(Defaults(resumes)) <= 1 /\ resumes = srvResumes

(***************************************************************************)
(* Auth Store: logout and the requests still in flight                     *)
(***************************************************************************)
LoggedOut == ~isAuthenticated /\ user = NullUser /\ GetItem(AuthTokenKey) = NoToken
AuthStarts == {"login", "register", "refreshToken"}
AuthSuccesses == {"loginOk", "registerOk", "refreshTokenOk"}

\* C23: once logout() has run and no login, register or refreshToken is
\* started afterwards, isAuthenticated stays false, user stays null and no
\* auth token is stored, also when a request started before the logout
\* settles afterwards: a step that is not the start of such a request, taken
\* while every request in flight is older than the last logout, leaves the
\* session logged out.
C23_Original ==
    [][(/\ LoggedOut
        /\ \A j \in 1..Len(authPending) : authPending[j].loggedOut
        /\ ev'.op \notin AuthStarts) => LoggedOut']_vars

\* A login issued before the logout was answered after it: the user is
\* authenticated again and the token of the answer is stored.
C23_Witness ==
    /\ ev.op \in AuthSuccesses
    /\ ev.arg.loggedOut
    /\ isAuthenticated /\ user = ServerUser
    /\ GetItem(AuthTokenKey) = ev.arg.token

\* C24: in every state reached by login, register, logout, refreshToken and
\* updateUser in any interleaving and with requests that succeed or fail
\* (no page reload), isAuthenticated is true exactly when user is not null,
\* and whenever isAuthenticated is true the auth-token key is in storage.
C24_SessionConsistency ==
    /\ isAuthenticated <=> user # NullUser
    /\ isAuthenticated => HasKey(localStorage, AuthTokenKey)

\* The user of a session has just been edited while another request of the
\* store is in flight; the session holds the edited user and a token.
C24_Witness ==
    /\ ev.op = "updateUser"
    /\ isAuthenticated
    /\ user = Then(ServerUser, ev.arg)
    /\ HasKey(localStorage, AuthTokenKey)
    /\ authPending # <<>>

(***************************************************************************)
(* Search Store: the flag and the query of overlapping and paged searches  *)
(***************************************************************************)
\* C25: in every reachable state of the Search Store, also with two or more
\* search() calls overlapping, isSearching is true whenever a search request
\* has been issued and has not settled yet.
C25_Original == searchPending # <<>> => isSearching

\* One of two overlapping searches has settled and cleared the flag; the
\* request of the other is still in flight.
C25_Witness ==
    /\ ev.op \in {"searchOk", "searchFail"}
    /\ searchPending # <<>>
    /\ ~isSearching

PagingOps == {"setPage", "setPageSize", "setSortBy"}

\* C26: after search(Q) with an explicit query Q has succeeded, a following
\* setPage(n), setPageSize(s) or setSortBy(k) issues its request for Q, the
\* query whose results are displayed, also when Q is not the stored query.
C26_Original ==
    [][(/\ ev'.op \in PagingOps
        /\ ev.op = "searchOk"
        /\ searchPending = <<>>) => LastIssued'.q = lastOk.q]_vars

\* The results of search(Q) are displayed, Q is not the stored query, and
\* setPage(2) has just issued a request for the stored query.
C26_Witness ==
    /\ ev.op = "setPage" /\ ev.arg = 2
    /\ lastOk.q = OverrideQuery
    /\ results = lastOk.response.jobs /\ results # <<>>
    /\ query # OverrideQuery
    /\ Len(searchPending) = 1
    /\ LastIssued.q = query /\ LastIssued.page = 2

(***************************************************************************)
(* Job Store: similar jobs and favorites                                   *)
(***************************************************************************)
\* C27: under any interleaving of fetchJob, fetchSimilarJobs and
\* clearCurrentJob completions, similarJobs is empty or the similar-jobs
\* response for the id of currentJob; it is empty whenever currentJob is null.
C27_Original ==
    \/ similarJobs = <<>>
    \/ currentJob # NullJob /\ similarJobs = SimilarJobsOf(currentJob.id)

\* The request for similar jobs that fetchJob started was answered after
\* clearCurrentJob: no job is current and similar jobs are listed.
C27_Witness ==
    /\ ev.op = "fetchSimilarJobsOk"
    /\ currentJob = NullJob
    /\ similarJobs = SimilarJobsOf(ev.arg)

\* C28: in every state reached from an empty favorites list by addToFavorites
\* and removeFromFavorites calls that succeed or fail, favoriteJobs holds no
\* two entries with the same job id.
C28_Original == NoTwoShareId(favoriteJobs)

\* The same job was added twice, the backend confirmed both times, and the
\* job is in the list twice.
C28_Witness ==
    /\ ev.op = "addToFavoritesOk"
    /\ ev.arg.job.id \in IdsOf(ev.arg.prev)
    /\ Len(SelectSeq(favoriteJobs, LAMBDA item : SameId(item, ev.arg.job.id))) = 2
    /\ jobPending = <<>>

(***************************************************************************)
(* User Store: currentResume                                               *)
(***************************************************************************)
\* fetchResumes, or a setDefaultResume that ran alone, has just returned
\* with success and no call of the User Store is in flight.
CompletedAlone ==
    /\ userCalls = <<>>
    /\ \/ ev.op = "fetchResumesOk"
       \/ ev.op = "setDefaultResumeDone" /\ ev.arg.clean

\* C29: whenever fetchResumes or setDefaultResume has completed successfully
\* with no other User Store operation in flight, currentResume is the resume
\* getDefaultResume() returns, the first entry of resumes marked default; so
\* after setDefaultResume(id) currentResume has id id.
C29_Original ==
    CompletedAlone =>
        /\ currentResume = FindDefault(resumes)
        /\ ev.op = "setDefaultResumeDone" => currentResume.id = ev.arg.id

\* setDefaultResume(id) ran alone on a loaded list with one default resume
\* and succeeded: resume id is the only default one, and currentResume is
\* still the resume that was the default before, now unmarked.
C29_Witness ==
    /\ CompletedAlone
    /\ ev.op = "setDefaultResumeDone" /\ ev.arg.oneDefault
    /\ DefaultIds(resumes) = {ev.arg.id}
    /\ currentResume # NullResume
    /\ currentResume.id # ev.arg.id
    /\ ~currentResume.isDefault

(***************************************************************************)
(* UI Store: the cap of the notification list                              *)
(***************************************************************************)
\* The entries of after are entries of before, in the order they had there.
KeepsOrder(before, after) ==
    /\ \A i \in 1..Len(after) : \E a \in 1..Len(before) : before[a] = after[i]
    /\ \A i \in 1..(Len(after) - 1) : Pos(before, after[i]) < Pos(before, after[i + 1])

\* C30: notifications never has more than maxNotifications (5) entries and
\* is ordered newest first: addNotification puts the new notification at
\* index 0 in front of the ones there were, in their order, dropping the
\* oldest (the last) one when the list was full, and every other step leaves
\* what remains in the order it had.
C30_NotificationCap ==
    /\ [](Len(notifications) <= MaxNotificationsDefault)
    /\ [][IF ev'.op = "addNotification"
          THEN /\ notifications'[1] = ev'.arg
               /\ Tail(notifications') =
                      (IF Len(notifications) = MaxNotificationsDefault
                       THEN SubSeq(notifications, 1, MaxNotificationsDefault - 1)
                       ELSE notifications)
          ELSE KeepsOrder(notifications, notifications')]_vars

\* A notification was added to a full list: it is at index 0, the list is
\* still full, and the id of the oldest one is no longer in it or a timer.
C30_Witness ==
    /\ ev.op = "addNotification"
    /\ Len(notifications) = MaxNotificationsDefault
    /\ notifications[1] = ev.arg
    /\ Cardinality(IdsOf(notifications) \cup timers) = MaxNotificationsDefault
    /\ Cardinality(Pinned(notifications)) = MaxNotificationsDefault - 1
====
